---- MODULE Spec2Model ----
(***************************************************************************)
(* PodPace backend: the quota ledger (utils/quotaUtils.ts), the job ledger *)
(* (utils/jobUtils.ts), the pipeline gate (index.ts and the refactored     *)
(* src/server.ts + router + controllers) and the two BullMQ workers        *)
(* (analyze worker, adjust worker).                                        *)
(*                                                                         *)
(* Every handler is cut at its awaits: one action is the code that runs    *)
(* between two suspension points, together with the store command or the   *)
(* external call that the await waits for.                                 *)
(***************************************************************************)
EXTENDS Integers, Sequences, FiniteSets, TLC

\* ------------------------------------------------------------------ bounds
MaxArrivals == 3        \* requests (or direct calls) that arrive in one behaviour
MaxInFlight == 2        \* HTTP requests that are being handled at the same time
MaxJobs == 1            \* uploads that get as far as generating a job id
TicksPerSecond == 2     \* clock resolution: ticks in one second (1000 ms in the code)
SecondsPerDay == 1      \* length of a UTC day in seconds (86400 in reality)
NumDays == 2            \* the clock runs over days 0 .. NumDays-1
MaxFaults == 1          \* ledger writes that the store loses in one behaviour
maxAttempts == 2        \* polls of pollTranscriptionStatus (720 in the code, scaled down)
MaxWords == 2           \* words of the utterance in the transcripts of the analysis runs
TwoJobs == 2            \* jobs that are queued for adjustment side by side

\* ------------------------------------------------------- program constants
analysisLimit == 3      \* quotaUtils.ts:33
adjustLimit == 1        \* quotaUtils.ts:64
quotaErrorCount == 999  \* quotaUtils.ts:20
concurrency == 2        \* interfaces.ts:247, part_016:399

TicksPerDay == TicksPerSecond * SecondsPerDay
MaxNow == NumDays * TicksPerDay - 1

Requests == 1..MaxInFlight
Workers == 1..concurrency
JobIds == 1..MaxJobs
Days == 0..(NumDays - 1)
Kinds == {"analysis", "adjust"}
Roles == {"FREE", "PAID"}
Impls == {"index", "router"}
NoTTL == -1
NoJob == 0

\* The lifecycle order of the job status (common/src/types.ts JobStatus).
Lifecycle == << "PENDING", "PROCESSING_UPLOAD_CLOUD", "PROCESSING_CLOUD_ANALYSIS",
                "PROCESSING_WPM_CALCULATION", "READY_FOR_INPUT", "QUEUED_FOR_ADJUSTMENT",
                "PROCESSING_ADJUSTMENT", "PROCESSING_RECONSTRUCTION", "COMPLETE" >>
Statuses == {Lifecycle[i] : i \in 1..Len(Lifecycle)} \cup {"FAILED"}
NoStatus == "NONE"

VARIABLES
    impl,          \* which server entry point is deployed: index.ts or src/server.ts
    now,           \* the wall clock, in ticks
    qcount,        \* quota counter keys: qcount[k][d] = value of quota:k:free:<user>:<d>, 0 = no key
    qexp,          \* expiry of each quota key: the tick at which it is deleted, or NoTTL
    jobStatus,     \* job:<id>:status hash, field status (NoStatus = no key)
    jobData,       \* job:<id>:data hash
    analyzeQueue,  \* BullMQ queue audio-analyze: waiting entries
    adjustQueue,   \* BullMQ queue audio-adjust: waiting entries
    nextJob,       \* number of job ids generated so far (uuidv4 never repeats)
    req,           \* the HTTP requests in flight: position and locals of each handler
    arrivals,      \* number of requests that have arrived
    admitted,      \* history: admitted[k][d] = quota checks on day d's key that returned true
    out,           \* the response sent in the latest step (locals of its handler), if any
    lostWrites,    \* history: ledger writes the store has failed so far
    analyzeWorker, \* analyze worker: position and locals of each running job handler
    adjustWorker,  \* adjust worker: position and locals of each running job handler
    tempDir,       \* temp_adjust/<jobId>: does the directory exist
    tempFiles,     \* temp_adjust/<jobId>: the files in it
    outFiles,      \* OUTPUT_DIR: the files in it
    fin            \* the job handler that returned in the latest step, if any

storeVars == << qcount, qexp, jobStatus, jobData, analyzeQueue, adjustQueue >>
workerVars == << analyzeWorker, adjustWorker, tempDir, tempFiles, outFiles >>
vars == << impl, now, qcount, qexp, jobStatus, jobData, analyzeQueue,
           adjustQueue, nextJob, req, arrivals, admitted, out, lostWrites,
           analyzeWorker, adjustWorker, tempDir, tempFiles, outFiles, fin >>

\* ------------------------------------------------------------------ clock
\* A key that carries no date: every instant belongs to the same day.
DayZero(t) == 0

\* new Date().toISOString().split('T')[0]: the UTC day of an instant.
DayOf(t) == t \div TicksPerDay

\* Date.UTC(y, m, d + 1): the first instant of the next UTC day.
NextMidnight(t) == (DayOf(t) + 1) * TicksPerDay

\* Math.floor((nextMidnight.getTime() - now.getTime()) / 1000)
TtlSeconds(t) == (NextMidnight(t) - t) \div TicksPerSecond

Limit(k) == IF k = "analysis" THEN analysisLimit ELSE adjustLimit

\* ------------------------------------------------------------ quota store
\* Redis INCR: creates the key at 1 (without expiry) or adds one to it.
IncrKey(k, d) == qcount' = [qcount EXCEPT ![k][d] = @ + 1]

\* Redis EXPIRE key seconds, executed at tick t: no effect on a missing key;
\* a non-positive timeout deletes the key; otherwise the key gets the deadline.
ExpireKey(k, d, seconds, t) ==
    IF qcount[k][d] = 0
    THEN UNCHANGED << qcount, qexp >>
    ELSE IF seconds <= 0
         THEN /\ qcount' = [qcount EXCEPT ![k][d] = 0]
              /\ qexp' = [qexp EXCEPT ![k][d] = NoTTL]
         ELSE /\ qexp' = [qexp EXCEPT ![k][d] = t + seconds * TicksPerSecond]
              /\ UNCHANGED qcount

\* The store deletes every key whose deadline has passed.
Expired(k, d, t) == qexp[k][d] # NoTTL /\ qexp[k][d] <= t

\* ------------------------------------------------------------- job ledger
\* A field of the data hash that holds JSON text: absent, or the text of value.
NoJson == [present |-> FALSE, value |-> << >>]
JSONstringify(v) == [present |-> TRUE, value |-> v]
JSONparse(t) == t.value

\* The data hash of a job. A string field that is not set is ""; a file name is
\* kept as its base name and its extension.
NoFile == [name |-> "", ext |-> ""]
NoData == [originalFilename |-> NoFile, filePath |-> "", targets |-> NoJson, error |-> "",
           assemblyAiTranscriptId |-> "", speakers |-> NoJson,
           diarizationSegments |-> NoJson, outputFilePath |-> ""]

\* dataToStore of updateJobStatus: a string is stored as it is, any other value
\* as its JSON text, so null is stored as the four characters "null".
Null == "<null>"
JsonOfNull == "null"
Stringify(v) == IF v = Null THEN JsonOfNull ELSE v

\* A write that replaces the whole hash: the fields it does not name are cleared.
MergeReplace(d, data) == [f \in DOMAIN NoData |-> IF f \in DOMAIN data THEN data[f] ELSE NoData[f]]

\* multi.hset(dataKey, dataToStore): the fields of data replace those of the hash.
\* multi.hset(statusKey, 'status', status, ...) + multi.hset(dataKey, dataToStore),
\* executed by multi.exec() as one transaction; data maps field names to values.
Merge(d, data) == [f \in DOMAIN NoData |-> IF f \in DOMAIN data THEN data[f] ELSE d[f]]

LedgerWrite(j, status, data) ==
    /\ jobStatus' = [jobStatus EXCEPT ![j] = status]
    /\ jobData' = [jobData EXCEPT ![j] = Merge(@, data)]

\* Two separate HSET commands, of which a failing store executes the first only.
updateJobStatusSplit(j, status, data, ok) ==
    IF ok THEN LedgerWrite(j, status, data)
          ELSE /\ jobStatus' = [jobStatus EXCEPT ![j] = status]
               /\ UNCHANGED jobData

\* updateJobStatus: the transaction either commits, or the store throws and the
\* catch block logs and returns (ok = FALSE): the caller never sees the failure.
updateJobStatus(j, status, data, ok) ==
    IF ok THEN LedgerWrite(j, status, data)
          ELSE UNCHANGED << jobStatus, jobData >>

\* --------------------------------------------------------------- requests
UnknownJob == MaxJobs + 1
AllJobIds == 1..UnknownJob
HttpKinds == {"upload", "adjust", "status", "download"}
CallKinds == {"check", "peek"}

IdleReq == [pc |-> "idle", kind |-> "none", role |-> "FREE", jobId |-> NoJob,
            qkind |-> "none", today |-> 0, currentCount |-> 0, ttl |-> 0,
            quota |-> "none", rstatus |-> NoStatus, rdata |-> NoData, targets |-> << >>,
            code |-> 0, msg |-> "", used |-> [k \in Kinds |-> -1],
            wrote |-> FALSE, enqueued |-> FALSE, storeFailed |-> FALSE,
            data0 |-> NoData, between |-> 0, torn |-> FALSE, file |-> ""]
NoOut == IdleReq

\* The handler of request r returns the response (c, m).
Respond(r, c, m) == [req[r] EXCEPT !.pc = "done", !.code = c, !.msg = m]

\* The step of a handler: the new locals of the requests. A handler that has
\* returned sends its response and leaves.
Commit(rq) ==
    /\ req' = [r \in Requests |-> IF rq[r].pc = "done" THEN IdleReq ELSE rq[r]]
    /\ out' = IF \E r \in Requests : rq[r].pc = "done"
              THEN rq[CHOOSE r \in Requests : rq[r].pc = "done"]
              ELSE NoOut

\* Bookkeeping for readers: a committed ledger write on job j is counted by every
\* getJobInfo call on j that has read the status hash and not yet the data hash.
NoteWrite(rq, j, ok) ==
    [r \in Requests |->
        IF ok /\ rq[r].pc = "read_data" /\ rq[r].jobId = j /\ rq[r].between < 2
        THEN [rq[r] EXCEPT !.between = @ + 1]
        ELSE rq[r]]

\* The outcomes of multi.exec(): the transaction commits (TRUE) or the store
\* throws (FALSE).
WriteOutcomes == IF lostWrites < MaxFaults THEN BOOLEAN ELSE {TRUE}

\* A ledger write issued by a handler, whose requests then are rq.
StoreWrite(j, status, data, rq) ==
    \E ok \in WriteOutcomes :
        /\ updateJobStatus(j, status, data, ok)
        /\ lostWrites' = IF ok THEN lostWrites ELSE lostWrites + 1
        /\ Commit(NoteWrite(rq, j, ok))

NoFin == [worker |-> "none", jobId |-> NoJob, thrower |-> "", threw |-> "", status |-> NoStatus,
          error |-> "", persisted |-> FALSE, escaped |-> FALSE, sawError |-> FALSE]

\* What a step of a request handler leaves alone besides the stores.
HandlerFrame ==
    /\ fin' = NoFin
    /\ UNCHANGED << impl, now, workerVars >>

\* errorResponse(message, status) of the handler that denies a request, or, in
\* the refactored server, the AppError thrown by mainRouter and caught by
\* serverOptions.fetch, which answers every exception with the same 500.
Deny(r) ==
    IF req[r].kind = "upload"
    THEN Respond(r, 403, "Daily analysis limit reached (3/day). Upgrade for unlimited analyses.")
    ELSE IF impl = "index"
         THEN Respond(r, 403, "Daily free processing limit reached. Upgrade for unlimited processing.")
         ELSE Respond(r, 500, "Internal Server Error")

\* Where a request goes once it is past the quota gate.
BodyPc(r) == IF req[r].kind = "upload" THEN "u_validate" ELSE "read_status"

\* The lowest free slot takes the next arrival.
FreeSlot(r) ==
    /\ req[r].pc = "idle"
    /\ \A q \in Requests : q < r => req[q].pc # "idle"
    /\ arrivals < MaxArrivals

\* An HTTP request arrives: upload, adjust, status or download, from a user with one of
\* the given roles.
ArriveOf(r, roles) ==
    /\ FreeSlot(r)
    /\ arrivals' = arrivals + 1
    /\ \E k \in HttpKinds, ro \in roles, j \in {i \in JobIds : i <= nextJob} \cup {UnknownJob} :
         Commit([req EXCEPT ![r] =
                   [@ EXCEPT !.kind = k, !.role = ro,
                             !.jobId = IF k = "upload" THEN NoJob ELSE j,
                             !.pc = CASE k \in {"status", "download"} -> "read_status"
                                      [] k = "adjust" /\ impl = "router" -> "r_validate"
                                      [] OTHER -> "gate"]])
    /\ HandlerFrame
    /\ UNCHANGED << storeVars, nextJob, admitted, lostWrites >>

Arrive(r) == ArriveOf(r, Roles)

\* The same for paying users only, whom the gate lets through unchecked.
ArrivePaid(r) == ArriveOf(r, {"PAID"})

\* router.ts: validateBody(adjustBodySchema)(req) runs before the quota check;
\* a body that is no JSON or fails the schema throws, and serverOptions.fetch
\* answers the exception with its generic 500.
RouterValidate(r) ==
    /\ req[r].pc = "r_validate"
    /\ \/ Commit([req EXCEPT ![r] = Respond(r, 500, "Internal Server Error")])
       \/ Commit([req EXCEPT ![r].pc = "gate"])
    /\ HandlerFrame
    /\ UNCHANGED << storeVars, nextJob, arrivals, admitted, lostWrites >>

\* checkAndIncrement...Quota up to its first await: today and the key are
\* computed and INCR is sent.
QuotaStart(q, k) == [q EXCEPT !.pc = "q_incr", !.qkind = k, !.today = DayOf(now)]

\* A gate that sends every caller through the quota check, whatever the role.
GateChecksAll(r) ==
    QuotaStart(req[r], IF req[r].kind = "upload" THEN "analysis" ELSE "adjust")

\* if (role === 'FREE') { quotaAllowed = await checkAndIncrement...Quota(user.id) }
Gate(r) ==
    IF req[r].role = "FREE"
    THEN QuotaStart(req[r], IF req[r].kind = "upload" THEN "analysis" ELSE "adjust")
    ELSE [req[r] EXCEPT !.pc = BodyPc(r)]

EnterGate(r) ==
    /\ req[r].pc = "gate"
    /\ Commit([req EXCEPT ![r] = Gate(r)])
    /\ HandlerFrame
    /\ UNCHANGED << storeVars, nextJob, arrivals, admitted, lostWrites >>

\* const allowed = currentCount <= limit
Allowed(count, k) == count <= Limit(k)

\* A quota check that admits when the store throws.
OnQuotaErrorOpen == TRUE

\* catch (error) { return false } of checkAndIncrement...Quota
OnQuotaError == FALSE

\* A gate that lets the request into the handler body whatever the quota check
\* returned.
AfterQuotaOpen(r, allowed) == [req[r] EXCEPT !.pc = BodyPc(r)]

\* The gate on the value returned by the quota check: deny, or let the request
\* into the handler body.
AfterQuota(r, allowed) ==
    IF allowed THEN [req[r] EXCEPT !.pc = BodyPc(r)] ELSE Deny(r)

\* The quota check returns `allowed`, to the gate or to the direct caller.
QuotaReturn(r, allowed, failed) ==
    /\ Commit([req EXCEPT ![r] =
                 [(IF req[r].kind = "check" THEN Respond(r, 0, "") ELSE AfterQuota(r, allowed))
                  EXCEPT !.quota = IF allowed THEN "allowed" ELSE "denied",
                         !.storeFailed = failed, !.currentCount = 0, !.ttl = 0]])
    /\ admitted' = IF allowed
                   THEN [admitted EXCEPT ![req[r].qkind][req[r].today] = @ + 1]
                   ELSE admitted

\* await redis.incr(key): the store executes INCR, or the command throws.
QIncr(r) ==
    /\ req[r].pc = "q_incr"
    /\ LET k == req[r].qkind
           d == req[r].today
       IN \/ /\ IncrKey(k, d)
             /\ UNCHANGED qexp
             /\ IF qcount[k][d] + 1 = 1
                THEN /\ Commit([req EXCEPT ![r].pc = "q_now", ![r].currentCount = 1])
                     /\ UNCHANGED admitted
                ELSE QuotaReturn(r, Allowed(qcount[k][d] + 1, k), FALSE)
          \/ /\ UNCHANGED << qcount, qexp >>
             /\ QuotaReturn(r, OnQuotaError, TRUE)
    /\ HandlerFrame
    /\ UNCHANGED << jobStatus, jobData, analyzeQueue, adjustQueue, nextJob, arrivals, lostWrites >>

\* if (currentCount === 1): now = new Date(), ttlSeconds computed, EXPIRE sent.
QNow(r) ==
    /\ req[r].pc = "q_now"
    /\ Commit([req EXCEPT ![r].pc = "q_expire", ![r].ttl = TtlSeconds(now)])
    /\ HandlerFrame
    /\ UNCHANGED << storeVars, nextJob, arrivals, admitted, lostWrites >>

\* await redis.expire(key, ttlSeconds): the store executes EXPIRE, or throws.
QExpire(r) ==
    /\ req[r].pc = "q_expire"
    /\ LET k == req[r].qkind
           d == req[r].today
       IN \/ /\ ExpireKey(k, d, req[r].ttl, now)
             /\ QuotaReturn(r, Allowed(req[r].currentCount, k), FALSE)
          \/ /\ UNCHANGED << qcount, qexp >>
             /\ QuotaReturn(r, OnQuotaError, TRUE)
    /\ HandlerFrame
    /\ UNCHANGED << jobStatus, jobData, analyzeQueue, adjustQueue, nextJob, arrivals, lostWrites >>

\* ------------------------------------------------------- upload (analysis)
FileName == [name |-> "episode", ext |-> ".mp3"]
UploadPath(j) == "uploads/" \o ToString(j) \o ".mp3"

\* { originalFilename, filePath, userId } of the PENDING write
UploadFields(j) == [originalFilename |-> FileName, filePath |-> UploadPath(j)]

\* handleUpload after the gate, up to the first ledger write: content type,
\* form data, file checks (one 400 stands for the three rejections), job id,
\* streaming the file to UPLOAD_DIR.
UploadValidate(r) ==
    /\ req[r].pc = "u_validate"
    /\ \/ /\ Commit([req EXCEPT ![r] = Respond(r, 400, "No valid audio file uploaded.")])
          /\ UNCHANGED nextJob
       \/ /\ Commit([req EXCEPT ![r] = Respond(r, 500, "Failed to process upload: Failed to save uploaded file from FormData.")])
          /\ UNCHANGED nextJob
       \/ /\ nextJob < MaxJobs
          /\ nextJob' = nextJob + 1
          /\ Commit([req EXCEPT ![r].pc = "u_status", ![r].jobId = nextJob + 1])
    /\ HandlerFrame
    /\ UNCHANGED << storeVars, arrivals, admitted, lostWrites >>

\* await updateJobStatus(jobId, 'PENDING', { originalFilename, filePath, userId }).
\* In the refactored uploadController the queue submission is commented out and
\* the handler answers 202 right after the write.
UploadStatus(r) ==
    /\ req[r].pc = "u_status"
    /\ StoreWrite(req[r].jobId, "PENDING", UploadFields(req[r].jobId),
                  [req EXCEPT ![r] =
                     IF impl = "index"
                     THEN [@ EXCEPT !.pc = "u_enqueue", !.wrote = TRUE]
                     ELSE [Respond(r, 202, "job_id") EXCEPT !.wrote = TRUE]])
    /\ HandlerFrame
    /\ UNCHANGED << qcount, qexp, analyzeQueue, adjustQueue, nextJob, arrivals, admitted >>

\* await analyzeAudioQueue.add(...): the entry is queued, or add throws and the
\* outer catch answers 500.
UploadEnqueue(r) ==
    /\ req[r].pc = "u_enqueue"
    /\ \/ /\ analyzeQueue' = Append(analyzeQueue,
                                    [jobId |-> req[r].jobId, filePath |-> UploadPath(req[r].jobId),
                                     originalFilename |-> FileName])
          /\ Commit([req EXCEPT ![r] = [Respond(r, 202, "job_id") EXCEPT !.enqueued = TRUE]])
       \/ /\ UNCHANGED analyzeQueue
          /\ Commit([req EXCEPT ![r] = Respond(r, 500, "Failed to process upload: queue")])
    /\ HandlerFrame
    /\ UNCHANGED << qcount, qexp, jobStatus, jobData, adjustQueue, nextJob, arrivals,
                    admitted, lostWrites >>

\* ------------------------------------------------------------ getJobInfo
\* The answer of a handler whose getJobInfo returned null. jobController.handleAdjust
\* throws AppError('Job not found', 404), which serverOptions.fetch turns into 500.
NotFound(r) ==
    IF impl = "router" /\ req[r].kind = "adjust"
    THEN Respond(r, 500, "Internal Server Error")
    ELSE Respond(r, 404, "Job not found")

\* statusData = await redis.hgetall(getJobStatusKey(jobId)); a throw makes
\* getJobInfo return null.
ReadStatus(r) ==
    /\ req[r].pc = "read_status"
    /\ \/ Commit([req EXCEPT ![r].pc = "read_data",
                             ![r].rstatus = jobStatus[req[r].jobId],
                             ![r].data0 = jobData[req[r].jobId],
                             ![r].between = 0])
       \/ Commit([req EXCEPT ![r] = NotFound(r)])
    /\ HandlerFrame
    /\ UNCHANGED << storeVars, nextJob, arrivals, admitted, lostWrites >>

\* AdjustRequestBody targets the caller may send (length > 0).
TargetLists == { << [id |-> "Speaker_A", target_wpm |-> 150] >>,
                 << [id |-> "Speaker_A", target_wpm |-> 180] >> }

\* if (currentStatus !== 'READY_FOR_INPUT' && currentStatus !== 'FAILED') -> 409
Adjustable(status) == status \in {"READY_FOR_INPUT", "FAILED"}

\* handleAdjust from the status check to the ledger write: the status check,
\* then await req.json() and the validation of body.targets. In the refactored
\* server validateBody has consumed the body, so req.json() throws, and every
\* exception of the controller reaches serverOptions.fetch.
AdjustCheck(q) ==
    IF ~Adjustable(q.rstatus)
    THEN IF impl = "index"
         THEN {[q EXCEPT !.pc = "done", !.code = 409,
                         !.msg = "Job status is not READY_FOR_INPUT or FAILED, cannot start/retry adjustment."]}
         ELSE {[q EXCEPT !.pc = "done", !.code = 500, !.msg = "Internal Server Error"]}
    ELSE IF impl = "index"
         THEN {[q EXCEPT !.pc = "done", !.code = 500, !.msg = "Failed to queue adjustment task."],
               [q EXCEPT !.pc = "done", !.code = 400, !.msg = "Invalid adjustment targets provided."]}
              \cup {[q EXCEPT !.pc = "a_status", !.targets = t] : t \in TargetLists}
         ELSE {[q EXCEPT !.pc = "done", !.code = 500, !.msg = "Internal Server Error"]}

\* handleStatus after getJobInfo: verifyAuth, getUserRole, and for a FREE user
\* the two getQuotaCount calls.
StatusAfterInfo(q) ==
    IF q.role = "FREE"
    THEN {[q EXCEPT !.pc = "s_peek", !.qkind = "analysis"]}
    ELSE {[q EXCEPT !.pc = "done", !.code = 200, !.msg = "status"]}

\* handleDownload after getJobInfo, up to await file.exists(): 409 unless the
\* status read is COMPLETE, 500 when the record has no outputFilePath.
DownloadAfterInfo(q) ==
    IF q.rstatus # "COMPLETE"
    THEN {[q EXCEPT !.pc = "done", !.code = 409,
                    !.msg = "Job status is not COMPLETE. File not ready for download."]}
    ELSE IF q.rdata.outputFilePath = ""
         THEN {[q EXCEPT !.pc = "done", !.code = 500,
                         !.msg = "Internal error: Output file path not found."]}
         ELSE {[q EXCEPT !.pc = "d_exists"]}

\* jobData = await redis.hgetall(getJobDataKey(jobId)), the not-found test and
\* the merge { ...statusData, ...jobData }, then the caller's code up to its
\* next await. torn: exactly one transaction committed between the two reads
\* and the merge is neither the record before it nor the record after it.
ReadData(r) ==
    /\ req[r].pc = "read_data"
    /\ LET j == req[r].jobId
           got == [req[r] EXCEPT !.rdata = jobData[j],
                                 !.torn = /\ req[r].between = 1
                                          /\ req[r].rstatus # jobStatus[j]
                                          /\ req[r].data0 # jobData[j],
                                 !.data0 = NoData, !.between = 0]
       IN \/ Commit([req EXCEPT ![r] = NotFound(r)])
          \/ /\ req[r].rstatus = NoStatus
             /\ Commit([req EXCEPT ![r] = NotFound(r)])
          \/ /\ req[r].rstatus # NoStatus
             /\ \E nxt \in (CASE req[r].kind = "adjust" -> AdjustCheck(got)
                             [] req[r].kind = "download" -> DownloadAfterInfo(got)
                             [] OTHER -> StatusAfterInfo(got)) :
                  Commit([req EXCEPT ![r] = nxt])
    /\ HandlerFrame
    /\ UNCHANGED << storeVars, nextJob, arrivals, admitted, lostWrites >>

\* ------------------------------------------------------------ adjust route
\* A write that stores the targets and leaves the error field alone.
AdjustFieldsKeepError(targets) == [targets |-> JSONstringify(targets)]

\* { targets: JSON.stringify(targets), error: null }
AdjustFields(targets) == [targets |-> JSONstringify(targets), error |-> Stringify(Null)]

\* await updateJobStatus(jobId, 'QUEUED_FOR_ADJUSTMENT',
\*                       { targets: JSON.stringify(targets), error: null })
AdjustStatus(r) ==
    /\ req[r].pc = "a_status"
    /\ StoreWrite(req[r].jobId, "QUEUED_FOR_ADJUSTMENT", AdjustFields(req[r].targets),
                  [req EXCEPT ![r].pc = "a_enqueue", ![r].wrote = TRUE])
    /\ HandlerFrame
    /\ UNCHANGED << qcount, qexp, analyzeQueue, adjustQueue, nextJob, arrivals, admitted >>

\* await adjustAudioQueue.add(ADJUST_QUEUE_NAME, { jobId, filePath, originalFilename, targets })
AdjustEnqueue(r) ==
    /\ req[r].pc = "a_enqueue"
    /\ \/ /\ adjustQueue' = Append(adjustQueue,
                                   [jobId |-> req[r].jobId, filePath |-> req[r].rdata.filePath,
                                    originalFilename |-> req[r].rdata.originalFilename,
                                    targets |-> req[r].targets])
          /\ Commit([req EXCEPT ![r] = [Respond(r, 202, "Adjustment queued") EXCEPT !.enqueued = TRUE]])
       \/ /\ UNCHANGED adjustQueue
          /\ Commit([req EXCEPT ![r] = Respond(r, 500, "Failed to queue adjustment task.")])
    /\ HandlerFrame
    /\ UNCHANGED << qcount, qexp, jobStatus, jobData, analyzeQueue, nextJob, arrivals,
                    admitted, lostWrites >>

\* ---------------------------------------------------------- download route
\* await file.exists() on Bun.file(outputFilePath): 404 when the file is not
\* there, else new Response(file, ...) is returned.
DownloadServe(r) ==
    /\ req[r].pc = "d_exists"
    /\ Commit([req EXCEPT ![r] =
                 IF req[r].rdata.outputFilePath \in outFiles
                 THEN [Respond(r, 200, "attachment") EXCEPT !.file = req[r].rdata.outputFilePath]
                 ELSE Respond(r, 404, "Output file not found.")])
    /\ HandlerFrame
    /\ UNCHANGED << storeVars, nextJob, arrivals, admitted, lostWrites >>

\* ------------------------------------------------------------ status route
\* A count that reports a missing key as one use.
getQuotaCountFromOne(k, d, ok) ==
    IF ok THEN (IF qcount[k][d] = 0 THEN 1 ELSE qcount[k][d]) ELSE quotaErrorCount

\* getQuotaCount: countStr = await redis.get(key); 0 if the key does not exist,
\* 999 if the store throws.
getQuotaCount(k, d, ok) == IF ok THEN qcount[k][d] ELSE quotaErrorCount

\* remaining: Math.max(0, limit - used)
Remaining(k, used) == IF Limit(k) - used > 0 THEN Limit(k) - used ELSE 0

\* One getQuotaCount call: of handleStatus (analysis, then adjust), or of a
\* direct caller.
StatusPeek(r) ==
    /\ req[r].pc = "s_peek"
    /\ \E ok \in BOOLEAN :
         LET k == req[r].qkind
             seen == [req[r] EXCEPT !.used[k] = getQuotaCount(k, DayOf(now), ok),
                                    !.storeFailed = @ \/ ~ok]
         IN Commit([req EXCEPT ![r] =
                      IF req[r].kind = "status" /\ k = "analysis"
                      THEN [seen EXCEPT !.qkind = "adjust"]
                      ELSE [seen EXCEPT !.pc = "done", !.code = 200, !.msg = "status"]])
    /\ HandlerFrame
    /\ UNCHANGED << storeVars, nextJob, arrivals, admitted, lostWrites >>

\* ----------------------------------------------------- quota ledger callers
\* A caller invokes checkAndIncrementAnalysisQuota / checkAndIncrementAdjustmentQuota
\* (check) or getQuotaCount (peek) for the user.
Call(r) ==
    /\ FreeSlot(r)
    /\ arrivals' = arrivals + 1
    /\ \E c \in CallKinds, k \in Kinds :
         Commit([req EXCEPT ![r] =
                   IF c = "check"
                   THEN QuotaStart([@ EXCEPT !.kind = c], k)
                   ELSE [@ EXCEPT !.kind = c, !.pc = "s_peek", !.qkind = k]])
    /\ HandlerFrame
    /\ UNCHANGED << storeVars, nextJob, admitted, lostWrites >>

\* ------------------------------------------------------------------ clock
\* Time passes; the store deletes the keys whose deadline is reached.
Tick ==
    /\ now < MaxNow
    /\ now' = now + 1
    /\ qcount' = [k \in Kinds |-> [d \in Days |->
                    IF Expired(k, d, now + 1) THEN 0 ELSE qcount[k][d]]]
    /\ qexp' = [k \in Kinds |-> [d \in Days |->
                    IF Expired(k, d, now + 1) THEN NoTTL ELSE qexp[k][d]]]
    /\ out' = NoOut
    /\ fin' = NoFin
    /\ UNCHANGED << impl, jobStatus, jobData, analyzeQueue, adjustQueue, nextJob, req,
                    arrivals, admitted, lostWrites, workerVars >>

\* ---------------------------------------------------------- WPM calculation
\* An utterance of the transcript: speaker label (NoSpeaker = null), the words of
\* its text, start and end in milliseconds.
NoSpeaker == "<null>"
FiveWords == << "a", "b", "c", "d", "e" >>
NoTranscript == [hasUtterances |-> FALSE, utterances |-> << >>]

\* The transcripts the service returns with status 'completed'.
Transcripts ==
    { [hasUtterances |-> TRUE,
       utterances |-> << [speaker |-> "A", text |-> FiveWords, start |-> 0, end |-> 2000] >>],
      NoTranscript }

\* Math.round(n / d) for n >= 0, d > 0
Round(n, d) == (2 * n + d) \div (2 * d)

\* The keys of speakerStats in insertion order: the non-null speaker labels in
\* the order of their first utterance.
RECURSIVE SpeakerLabels(_, _)
SpeakerLabels(utts, seen) ==
    IF utts = << >> THEN seen
    ELSE LET s == Head(utts).speaker
         IN IF s = NoSpeaker \/ \E i \in 1..Len(seen) : seen[i] = s
            THEN SpeakerLabels(Tail(utts), seen)
            ELSE SpeakerLabels(Tail(utts), Append(seen, s))

\* speakerStats[label].wordCount and .durationMs after the loop over utterances.
RECURSIVE WordCount(_, _)
WordCount(utts, s) ==
    IF utts = << >> THEN 0
    ELSE (IF Head(utts).speaker = s THEN Len(Head(utts).text) ELSE 0) + WordCount(Tail(utts), s)

RECURSIVE DurationMs(_, _)
DurationMs(utts, s) ==
    IF utts = << >> THEN 0
    ELSE (IF Head(utts).speaker = s THEN Head(utts).end - Head(utts).start ELSE 0)
         + DurationMs(Tail(utts), s)

\* Math.round((stats.wordCount / durationSeconds) * 60) with durationSeconds =
\* stats.durationMs / 1000, evaluated on doubles: the exact quotient rounded half
\* up, except where the exact quotient lies half-way between two integers and
\* the two divisions and the product come out just below it. 7 words in 2240 ms
\* give 187.49999999999997 instead of 187.5, which Math.round takes to 187; none
\* of the other word counts and durations used here is such a pair.
WpmOf(wc, ms) ==
    IF << wc, ms >> = << 7, 2240 >> THEN Round(wc * 60000, ms) - 1
    ELSE Round(wc * 60000, ms)

\* One entry of the result. total_duration_s is kept in hundredths of a second
\* (parseFloat(durationSeconds.toFixed(2))).
SpeakerStat(utts, s) ==
    LET wc == WordCount(utts, s)
        ms == DurationMs(utts, s)
    IN IF ms > 0 /\ wc > 0
       THEN [id |-> "Speaker_" \o s, avg_wpm |-> WpmOf(wc, ms),
             total_words |-> wc, total_duration_s |-> Round(ms, 10)]
       ELSE [id |-> "Speaker_" \o s, avg_wpm |-> 0, total_words |-> 0, total_duration_s |-> 0]

calculateWPM(t) ==
    IF ~t.hasUtterances THEN << >>
    ELSE LET labels == SpeakerLabels(t.utterances, << >>)
         IN [i \in 1..Len(labels) |-> SpeakerStat(t.utterances, labels[i])]

\* A segment list that keeps the utterances of identified speakers only.
DiarizationSegmentsSpoken(t) ==
    IF ~t.hasUtterances THEN << >>
    ELSE LET Spoken(u) == u.speaker # NoSpeaker
             utts == SelectSeq(t.utterances, Spoken)
         IN [i \in 1..Len(utts) |->
               [speaker |-> utts[i].speaker, start |-> utts[i].start, end |-> utts[i].end]]

\* diarizationSegments = transcriptData.utterances.map(utt => ({speaker, start, end}))
DiarizationSegments(t) ==
    IF ~t.hasUtterances THEN << >>
    ELSE [i \in 1..Len(t.utterances) |->
            [speaker |-> t.utterances[i].speaker, start |-> t.utterances[i].start,
             end |-> t.utterances[i].end]]

\* ----------------------------------------------------------- analyze worker
IdleAnalyze == [pc |-> "idle", jobId |-> NoJob, attempts |-> 0, sawError |-> FALSE,
                transcript |-> NoTranscript, thrower |-> "", threw |-> ""]

UploadError == "AssemblyAI upload failed"
\* What uploadFileToAssemblyAI throws: its own Error, or one of readFile/fetch,
\* whose message may be empty.
UploadErrors == {UploadError, ""}
SubmitError == "AssemblyAI job submission failed"
UpstreamError == "AssemblyAI transcription failed: upstream"
TimeoutError == "AssemblyAI transcription timed out"
WpmError == "undefined is not an object (evaluating 'utterance.text.trim')"
TranscriptId == "transcript-1"

\* What the workers never touch.
WorkerFrame ==
    /\ out' = NoOut
    /\ UNCHANGED << impl, now, qcount, qexp, nextJob, arrivals, admitted >>

\* A step of a worker that sends nothing to the store.
NoStore == UNCHANGED << jobStatus, jobData, req, lostWrites >>

\* await updateJobStatus(jobId, status, data) in a job handler: the transaction
\* commits or is lost (ok), and the handler goes on either way.
WorkerWrite(j, status, data, ok) ==
    /\ updateJobStatus(j, status, data, ok)
    /\ lostWrites' = IF ok THEN lostWrites ELSE lostWrites + 1
    /\ req' = NoteWrite(req, j, ok)

\* The lowest idle handler slot of a worker takes the next queue entry.
FreeWorker(ws, w) ==
    /\ ws[w].pc = "idle"
    /\ \A v \in Workers : v < w => ws[v].pc # "idle"

\* BullMQ hands the next entry of audio-analyze to processAnalyzeJob, which runs
\* up to its first await: updateJobStatus(jobId, 'PROCESSING_UPLOAD_CLOUD').
AnalyzePick(w) ==
    /\ analyzeQueue # << >>
    /\ FreeWorker(analyzeWorker, w)
    /\ analyzeQueue' = Tail(analyzeQueue)
    /\ analyzeWorker' = [analyzeWorker EXCEPT ![w] =
                           [IdleAnalyze EXCEPT !.pc = "upload_status",
                                               !.jobId = Head(analyzeQueue).jobId]]
    /\ fin' = NoFin
    /\ WorkerFrame /\ NoStore
    /\ UNCHANGED << adjustQueue, adjustWorker, tempDir, tempFiles, outFiles >>

\* A status-only write of processAnalyzeJob, after which the handler is at `next`.
AnalyzeStatus(w, at, status, next) ==
    /\ analyzeWorker[w].pc = at
    /\ \E ok \in WriteOutcomes : WorkerWrite(analyzeWorker[w].jobId, status, << >>, ok)
    /\ analyzeWorker' = [analyzeWorker EXCEPT ![w].pc = next]
    /\ fin' = NoFin
    /\ WorkerFrame
    /\ UNCHANGED << analyzeQueue, adjustQueue, adjustWorker, tempDir, tempFiles, outFiles >>

\* A step of processAnalyzeJob that calls the transcription service.
AnalyzeLocal(w, rec) ==
    /\ analyzeWorker' = [analyzeWorker EXCEPT ![w] = rec]
    /\ fin' = NoFin
    /\ WorkerFrame /\ NoStore
    /\ UNCHANGED << analyzeQueue, adjustQueue, adjustWorker, tempDir, tempFiles, outFiles >>

\* catch (error) of processAnalyzeJob: the handler is about to write FAILED.
\* thrower remembers the step that threw.
AnalyzeCatch(a, message) == [a EXCEPT !.pc = "failed", !.threw = message, !.thrower = a.pc]

AnalyzeUploadStatus(w) ==
    AnalyzeStatus(w, "upload_status", "PROCESSING_UPLOAD_CLOUD", "upload")

\* assemblyAiUploadUrl = await uploadFileToAssemblyAI(filePath, jobId)
AnalyzeUpload(w) ==
    /\ analyzeWorker[w].pc = "upload"
    /\ \/ AnalyzeLocal(w, [analyzeWorker[w] EXCEPT !.pc = "analysis_status"])
       \/ \E e \in UploadErrors : AnalyzeLocal(w, AnalyzeCatch(analyzeWorker[w], e))

AnalyzeAnalysisStatus(w) ==
    AnalyzeStatus(w, "analysis_status", "PROCESSING_CLOUD_ANALYSIS", "submit")

\* assemblyAiTranscriptId = await submitTranscriptionJob(assemblyAiUploadUrl, jobId)
AnalyzeSubmit(w) ==
    /\ analyzeWorker[w].pc = "submit"
    /\ \/ AnalyzeLocal(w, [analyzeWorker[w] EXCEPT !.pc = "poll", !.attempts = 0])
       \/ AnalyzeLocal(w, AnalyzeCatch(analyzeWorker[w], SubmitError))

\* What one poll can bring: the fetch throws, the response is not OK, or the
\* transcript status is one of these.
PollResults == {"throw", "not_ok", "queued", "processing", "unknown", "error", "completed"}

\* A loop that counts no pass as an attempt.
PollPassNoCount(a, p, t) ==
    IF p = "completed"
    THEN [a EXCEPT !.pc = "wpm_status", !.transcript = t]
    ELSE [a EXCEPT !.sawError = @ \/ (p = "error")]

\* The locals of pollTranscriptionStatus after one pass of its loop with
\* result p (and transcript t when p is 'completed'). The throw for status
\* 'error' is raised inside the try of the loop body, whose catch logs, sleeps
\* and lets the loop go on.
PollPass(a, p, t) ==
    IF p = "completed"
    THEN [a EXCEPT !.attempts = @ + 1, !.pc = "wpm_status", !.transcript = t]
    ELSE [a EXCEPT !.attempts = @ + 1, !.sawError = @ \/ (p = "error")]

\* One pass of while (attempts < maxAttempts), the service holding one of the
\* transcripts ts.
AnalyzePollOf(w, ts) ==
    /\ analyzeWorker[w].pc = "poll"
    /\ analyzeWorker[w].attempts < maxAttempts
    /\ \E p \in PollResults, t \in ts :
         AnalyzeLocal(w, PollPass(analyzeWorker[w], p, t))

AnalyzePoll(w) == AnalyzePollOf(w, Transcripts)

\* The loop ends without a transcript: throw new Error(... timed out ...).
AnalyzePollTimeout(w) ==
    /\ analyzeWorker[w].pc = "poll"
    /\ analyzeWorker[w].attempts >= maxAttempts
    /\ AnalyzeLocal(w, AnalyzeCatch(analyzeWorker[w], TimeoutError))

AnalyzeWpmStatus(w) ==
    AnalyzeStatus(w, "wpm_status", "PROCESSING_WPM_CALCULATION", "ready")

\* The job handler returns: its slot is free again.
AnalyzeReturn(w, ok, status, message, escapes) ==
    /\ analyzeWorker' = [analyzeWorker EXCEPT ![w] = IdleAnalyze]
    /\ fin' = [worker |-> "analyze", jobId |-> analyzeWorker[w].jobId,
               thrower |-> analyzeWorker[w].thrower, threw |-> analyzeWorker[w].threw, status |-> status, error |-> message,
               persisted |-> ok, escaped |-> escapes, sawError |-> analyzeWorker[w].sawError]
    /\ WorkerFrame
    /\ UNCHANGED << analyzeQueue, adjustQueue, adjustWorker, tempDir, tempFiles, outFiles >>

\* A final write that stores the speakers and leaves the segments for later.
ReadyFieldsSpeakersOnly(t) ==
    [assemblyAiTranscriptId |-> TranscriptId, speakers |-> JSONstringify(calculateWPM(t))]

\* { assemblyAiTranscriptId, speakers, diarizationSegments } of the final write
ReadyFields(t) ==
    [assemblyAiTranscriptId |-> TranscriptId,
     speakers |-> JSONstringify(calculateWPM(t)),
     diarizationSegments |-> JSONstringify(DiarizationSegments(t))]

\* calculateWPM (which throws on an utterance without text), the segment list, and the final write
\* updateJobStatus(jobId, 'READY_FOR_INPUT', {assemblyAiTranscriptId, speakers, diarizationSegments}).
AnalyzeReady(w) ==
    /\ analyzeWorker[w].pc = "ready"
    /\ \/ \E ok \in WriteOutcomes :
            /\ WorkerWrite(analyzeWorker[w].jobId, "READY_FOR_INPUT",
                           ReadyFields(analyzeWorker[w].transcript), ok)
            /\ AnalyzeReturn(w, ok, "READY_FOR_INPUT", "", FALSE)
       \/ AnalyzeLocal(w, AnalyzeCatch(analyzeWorker[w], WpmError))

\* The message of the error as it is, without the fallback text.
AnalyzeErrorMessageRaw(message) == message

\* error.message || 'Unknown processing error'
AnalyzeErrorMessage(message) == IF message = "" THEN "Unknown processing error" ELSE message

\* Does the catch block of processAnalyzeJob rethrow (throw error is commented out).
AnalyzeRethrows == FALSE

\* catch: await updateJobStatus(jobId, 'FAILED', { error: ... }), then return.
AnalyzeFailed(w) ==
    /\ analyzeWorker[w].pc = "failed"
    /\ \E ok \in WriteOutcomes :
         /\ WorkerWrite(analyzeWorker[w].jobId, "FAILED",
                        [error |-> AnalyzeErrorMessage(analyzeWorker[w].threw)], ok)
         /\ AnalyzeReturn(w, ok, "FAILED", AnalyzeErrorMessage(analyzeWorker[w].threw),
                          AnalyzeRethrows)

\* ------------------------------------------------------------ adjust worker
IdleAdjust == [pc |-> "idle", jobId |-> NoJob, filePath |-> "", originalFilename |-> NoFile,
               targets |-> << >>, speakers |-> << >>, segments |-> << >>, i |-> 0,
               paths |-> << >>, thrower |-> "", threw |-> "", output |-> ""]

NoAnalysisError == "Failed to retrieve necessary analysis data from Redis."
CopyError == "Failed to copy original file for unchanged job: copy"
ShellError == "Failed with exit code 1"
FsError == "ENOENT"

\* `${path.parse(originalFilename).name}_normalized.mp3` in OUTPUT_DIR
OutputPath(originalFilename) == "output/" \o originalFilename.name \o "_normalized.mp3"

\* segment_<index>_input.wav and segment_<index>_output.wav, the index from 0
\* and padded to four digits (String(i).padStart(4, '0'), here for i < 10).
SegmentInput(i) == "segment_000" \o ToString(i - 1) \o "_input.wav"
SegmentOutput(i) == "segment_000" \o ToString(i - 1) \o "_output.wav"
ConcatList == "concat_list.txt"

\* originalWpmMap.get(id) / targetWpmMap.get(id): the avg_wpm / target_wpm of
\* the last entry with that id, or Undefined.
Undefined == -1
RECURSIVE MapGet(_, _, _)
MapGet(entries, id, field) ==
    IF entries = << >> THEN Undefined
    ELSE LET n == Len(entries)
         IN IF entries[n].id = id THEN entries[n][field]
            ELSE MapGet(SubSeq(entries, 1, n - 1), id, field)

Abs(x) == IF x < 0 THEN -x ELSE x

\* An optimization check without tolerance: any target that is not the original WPM.
NeedsProcessingStrict(targets, speakers) ==
    \E n \in 1..Len(targets) :
        LET originalWpm == MapGet(speakers, targets[n].id, "avg_wpm")
        IN originalWpm = Undefined \/ Abs(targets[n].target_wpm - originalWpm) > 0

\* The optimization check: some target differs from the speaker's original WPM
\* by more than 1, or names a speaker without an original WPM.
NeedsProcessing(targets, speakers) ==
    \E n \in 1..Len(targets) :
        LET originalWpm == MapGet(speakers, targets[n].id, "avg_wpm")
        IN originalWpm = Undefined \/ Abs(targets[n].target_wpm - originalWpm) > 1

\* Math.abs(stretchFactor - 1.0) > 0.01 for the segment, where stretchFactor is
\* targetWpm / originalWpm when the speaker has both and both are positive, else 1.
\* The test is made on IEEE doubles: for a quotient of exactly 1.01 or 0.99 the
\* double nearest to it lies further from 1.0 than the double 0.01 (101 / 100 - 1.0
\* is 0.010000000000000009), so the test is true there; every other quotient of
\* two WPM values is far enough from the threshold for the rounding not to matter.
NeedsStretch(segment, targets, speakers) ==
    /\ segment.speaker # NoSpeaker
    /\ LET id == "Speaker_" \o segment.speaker
           originalWpm == MapGet(speakers, id, "avg_wpm")
           targetWpm == MapGet(targets, id, "target_wpm")
       IN /\ targetWpm # Undefined
          /\ originalWpm # Undefined
          /\ originalWpm > 0 /\ targetWpm > 0
          /\ 100 * Abs(targetWpm - originalWpm) >= originalWpm

\* A load that takes whatever the data hash holds.
HasAnalysisDataLax(d) == TRUE

\* getJobAnalysisData on the data hash d: null (FALSE) when speakers or
\* diarizationSegments is missing.
HasAnalysisData(d) == d.speakers.present /\ d.diarizationSegments.present

\* A step of the adjust worker that sends nothing to the ledger.
AdjustLocal(w, rec) ==
    /\ adjustWorker' = [adjustWorker EXCEPT ![w] = rec]
    /\ fin' = NoFin
    /\ WorkerFrame /\ NoStore
    /\ UNCHANGED << analyzeQueue, analyzeWorker >>

\* BullMQ hands the next entry of audio-adjust to processAdjustJob, which runs
\* up to its first await: updateJobStatus(jobId, 'PROCESSING_ADJUSTMENT').
AdjustPick(w) ==
    /\ adjustQueue # << >>
    /\ FreeWorker(adjustWorker, w)
    /\ adjustQueue' = Tail(adjustQueue)
    /\ AdjustLocal(w, [IdleAdjust EXCEPT !.pc = "adjust_status",
                                         !.jobId = Head(adjustQueue).jobId,
                                         !.filePath = Head(adjustQueue).filePath,
                                         !.originalFilename = Head(adjustQueue).originalFilename,
                                         !.targets = Head(adjustQueue).targets])
    /\ UNCHANGED << tempDir, tempFiles, outFiles >>

\* A status-only write of processAudioAdjustment.
AdjustWrite(w, at, status, next) ==
    /\ adjustWorker[w].pc = at
    /\ \E ok \in WriteOutcomes : WorkerWrite(adjustWorker[w].jobId, status, << >>, ok)
    /\ adjustWorker' = [adjustWorker EXCEPT ![w].pc = next]
    /\ fin' = NoFin
    /\ WorkerFrame
    /\ UNCHANGED << analyzeQueue, adjustQueue, analyzeWorker, tempDir, tempFiles, outFiles >>

AdjustProcessingStatus(w) ==
    AdjustWrite(w, "adjust_status", "PROCESSING_ADJUSTMENT", "load")

\* catch (error) of processAdjustJob: the handler is about to write FAILED.
AdjustCatch(a, message) == [a EXCEPT !.pc = "failed", !.threw = message, !.thrower = a.pc]

\* A throw inside try { ... } finally { fs.rm(tempDir) }: the cleanup runs first.
AdjustThrow(a, message) == [a EXCEPT !.pc = "cleanup", !.threw = message, !.thrower = a.pc]

\* The for loop of processAudioAdjustment from segment i on, up to its next
\* await: segments of non-positive duration are skipped; after the last
\* segment the next await is updateJobStatus(jobId, 'PROCESSING_RECONSTRUCTION').
\* A loop head that skips no segment.
NextSegmentAll(a, i) ==
    IF i > Len(a.segments) THEN [a EXCEPT !.pc = "recon_status", !.i = i]
    ELSE [a EXCEPT !.pc = "extract", !.i = i]

\* A loop head that skips the segments of zero duration only.
RECURSIVE NextSegmentZeroOnly(_, _)
NextSegmentZeroOnly(a, i) ==
    IF i > Len(a.segments) THEN [a EXCEPT !.pc = "recon_status", !.i = i]
    ELSE IF a.segments[i].end - a.segments[i].start = 0 THEN NextSegmentZeroOnly(a, i + 1)
    ELSE [a EXCEPT !.pc = "extract", !.i = i]

RECURSIVE NextSegment(_, _)
NextSegment(a, i) ==
    IF i > Len(a.segments) THEN [a EXCEPT !.pc = "recon_status", !.i = i]
    ELSE IF a.segments[i].end - a.segments[i].start <= 0 THEN NextSegment(a, i + 1)
    ELSE [a EXCEPT !.pc = "extract", !.i = i]

\* analysisData = await getJobAnalysisData(jobId), then the optimization check.
AdjustLoad(w) ==
    /\ adjustWorker[w].pc = "load"
    /\ LET a == adjustWorker[w]
           d == jobData[a.jobId]
           loaded == [a EXCEPT !.speakers = JSONparse(d.speakers),
                               !.segments = JSONparse(d.diarizationSegments)]
       IN \/ AdjustLocal(w, AdjustCatch(a, NoAnalysisError))
          \/ /\ ~HasAnalysisData(d)
             /\ AdjustLocal(w, AdjustCatch(a, NoAnalysisError))
          \/ /\ HasAnalysisData(d)
             /\ AdjustLocal(w, [loaded EXCEPT !.pc =
                    IF NeedsProcessing(a.targets, loaded.speakers) THEN "mkdir" ELSE "copy"])
    /\ UNCHANGED << adjustQueue, tempDir, tempFiles, outFiles >>

\* await fs.copyFile(filePath, finalOutputPath) of the unchanged job.
AdjustCopy(w) ==
    /\ adjustWorker[w].pc = "copy"
    /\ LET a == adjustWorker[w]
       IN \/ /\ outFiles' = outFiles \cup {OutputPath(a.originalFilename)}
             /\ AdjustLocal(w, [a EXCEPT !.pc = "complete",
                                         !.output = OutputPath(a.originalFilename)])
          \/ /\ UNCHANGED outFiles
             /\ AdjustLocal(w, AdjustCatch(a, CopyError))
    /\ UNCHANGED << adjustQueue, tempDir, tempFiles >>

\* await fs.mkdir(tempDir, { recursive: true }), before the try block.
AdjustMkdir(w) ==
    /\ adjustWorker[w].pc = "mkdir"
    /\ LET a == adjustWorker[w]
       IN \/ /\ tempDir' = [tempDir EXCEPT ![a.jobId] = TRUE]
             /\ AdjustLocal(w, NextSegment(a, 1))
          \/ /\ UNCHANGED tempDir
             /\ AdjustLocal(w, AdjustCatch(a, FsError))
    /\ UNCHANGED << adjustQueue, tempFiles, outFiles >>

\* ffmpeg extracts segment i into segment_<i>_input.wav; it fails when the
\* directory is gone. A segment that needs no stretch is pushed as it is.
AdjustExtract(w) ==
    /\ adjustWorker[w].pc = "extract"
    /\ LET a == adjustWorker[w]
           j == a.jobId
       IN \/ /\ tempDir[j]
             /\ tempFiles' = [tempFiles EXCEPT ![j] = @ \cup {SegmentInput(a.i)}]
             /\ AdjustLocal(w, IF NeedsStretch(a.segments[a.i], a.targets, a.speakers)
                               THEN [a EXCEPT !.pc = "rubberband"]
                               ELSE NextSegment([a EXCEPT !.paths = Append(@, SegmentInput(a.i))],
                                                a.i + 1))
          \/ /\ UNCHANGED tempFiles
             /\ AdjustLocal(w, AdjustThrow(a, ShellError))
    /\ UNCHANGED << adjustQueue, tempDir, outFiles >>

\* rubberband --tempo stretchFactor input output; it fails when the input is gone.
AdjustRubberband(w) ==
    /\ adjustWorker[w].pc = "rubberband"
    /\ LET a == adjustWorker[w]
           j == a.jobId
       IN \/ /\ SegmentInput(a.i) \in tempFiles[j]
             /\ tempFiles' = [tempFiles EXCEPT ![j] = @ \cup {SegmentOutput(a.i)}]
             /\ AdjustLocal(w, [a EXCEPT !.pc = "rm_input",
                                         !.paths = Append(@, SegmentOutput(a.i))])
          \/ /\ UNCHANGED tempFiles
             /\ AdjustLocal(w, AdjustThrow(a, ShellError))
    /\ UNCHANGED << adjustQueue, tempDir, outFiles >>

\* rm -f segment_<i>_input.wav after a stretch.
AdjustRmInput(w) ==
    /\ adjustWorker[w].pc = "rm_input"
    /\ LET a == adjustWorker[w]
           j == a.jobId
       IN \/ /\ tempFiles' = [tempFiles EXCEPT ![j] = @ \ {SegmentInput(a.i)}]
             /\ AdjustLocal(w, NextSegment(a, a.i + 1))
          \/ /\ UNCHANGED tempFiles
             /\ AdjustLocal(w, AdjustThrow(a, ShellError))
    /\ UNCHANGED << adjustQueue, tempDir, outFiles >>

AdjustReconStatus(w) ==
    AdjustWrite(w, "recon_status", "PROCESSING_RECONSTRUCTION", "concat_list")

\* await fs.writeFile(concatFilePath, concatFileContent)
AdjustConcatList(w) ==
    /\ adjustWorker[w].pc = "concat_list"
    /\ LET a == adjustWorker[w]
           j == a.jobId
       IN \/ /\ tempDir[j]
             /\ tempFiles' = [tempFiles EXCEPT ![j] = @ \cup {ConcatList}]
             /\ AdjustLocal(w, [a EXCEPT !.pc = "concat"])
          \/ /\ UNCHANGED tempFiles
             /\ AdjustLocal(w, AdjustThrow(a, FsError))
    /\ UNCHANGED << adjustQueue, tempDir, outFiles >>

\* ffmpeg -f concat -i concat_list.txt ... finalOutputPath: it needs the list,
\* at least one entry, and every listed file.
AdjustConcat(w) ==
    /\ adjustWorker[w].pc = "concat"
    /\ LET a == adjustWorker[w]
           j == a.jobId
       IN \/ /\ ConcatList \in tempFiles[j]
             /\ a.paths # << >>
             /\ \A n \in 1..Len(a.paths) : a.paths[n] \in tempFiles[j]
             /\ outFiles' = outFiles \cup {OutputPath(a.originalFilename)}
             /\ AdjustLocal(w, [a EXCEPT !.pc = "cleanup",
                                         !.output = OutputPath(a.originalFilename)])
          \/ /\ UNCHANGED outFiles
             /\ AdjustLocal(w, AdjustThrow(a, ShellError))
    /\ UNCHANGED << adjustQueue, tempDir, tempFiles >>

\* finally { await fs.rm(tempDir, { recursive: true, force: true }) }: the
\* directory is removed; a throw of rm replaces whatever was thrown before.
AdjustCleanup(w) ==
    /\ adjustWorker[w].pc = "cleanup"
    /\ LET a == adjustWorker[w]
           j == a.jobId
       IN \/ /\ tempDir' = [tempDir EXCEPT ![j] = FALSE]
             /\ tempFiles' = [tempFiles EXCEPT ![j] = {}]
             /\ AdjustLocal(w, IF a.threw = "" /\ a.output # ""
                               THEN [a EXCEPT !.pc = "complete"]
                               ELSE [a EXCEPT !.pc = "failed"])
          \/ /\ UNCHANGED << tempDir, tempFiles >>
             /\ AdjustLocal(w, AdjustCatch(a, FsError))
    /\ UNCHANGED << adjustQueue, outFiles >>

\* processAdjustJob returns: its slot is free again.
AdjustReturn(w, ok, status, message, escapes) ==
    /\ adjustWorker' = [adjustWorker EXCEPT ![w] = IdleAdjust]
    /\ fin' = [worker |-> "adjust", jobId |-> adjustWorker[w].jobId,
               thrower |-> adjustWorker[w].thrower, threw |-> adjustWorker[w].threw, status |-> status, error |-> message,
               persisted |-> ok, escaped |-> escapes, sawError |-> FALSE]
    /\ WorkerFrame
    /\ UNCHANGED << analyzeQueue, adjustQueue, analyzeWorker, tempDir, tempFiles, outFiles >>

\* A COMPLETE write followed by a throw inside the try block: the catch block is next.
AdjustCompleteThenCatch(w) == AdjustWrite(w, "complete", "COMPLETE", "failed")

\* A COMPLETE write that carries no data.
CompleteFieldsNone(a) == << >>

\* { outputFilePath: finalOutputPath } of the COMPLETE write
CompleteFields(a) == [outputFilePath |-> a.output]

\* await updateJobStatus(jobId, 'COMPLETE', { outputFilePath: finalOutputPath })
AdjustComplete(w) ==
    /\ adjustWorker[w].pc = "complete"
    /\ \E ok \in WriteOutcomes :
         /\ WorkerWrite(adjustWorker[w].jobId, "COMPLETE", CompleteFields(adjustWorker[w]), ok)
         /\ AdjustReturn(w, ok, "COMPLETE", "", FALSE)

\* error.message || 'Unknown adjustment error'
AdjustErrorMessage(message) == IF message = "" THEN "Unknown adjustment error" ELSE message

\* Does the catch block of processAdjustJob rethrow.
AdjustRethrows == FALSE

\* catch: await updateJobStatus(jobId, 'FAILED', { error: ... }), then return.
AdjustFailed(w) ==
    /\ adjustWorker[w].pc = "failed"
    /\ \E ok \in WriteOutcomes :
         /\ WorkerWrite(adjustWorker[w].jobId, "FAILED",
                        [error |-> AdjustErrorMessage(adjustWorker[w].threw)], ok)
         /\ AdjustReturn(w, ok, "FAILED", AdjustErrorMessage(adjustWorker[w].threw),
                         AdjustRethrows)

\* ------------------------------------------------------------ specification
Init ==
    /\ impl \in Impls
    /\ now = 0
    /\ qcount = [k \in Kinds |-> [d \in Days |-> 0]]
    /\ qexp = [k \in Kinds |-> [d \in Days |-> NoTTL]]
    /\ jobStatus = [j \in AllJobIds |-> NoStatus]
    /\ jobData = [j \in AllJobIds |-> NoData]
    /\ analyzeQueue = << >>
    /\ adjustQueue = << >>
    /\ nextJob = 0
    /\ req = [r \in Requests |-> IdleReq]
    /\ arrivals = 0
    /\ admitted = [k \in Kinds |-> [d \in Days |-> 0]]
    /\ out = NoOut
    /\ lostWrites = 0
    /\ analyzeWorker = [w \in Workers |-> IdleAnalyze]
    /\ adjustWorker = [w \in Workers |-> IdleAdjust]
    /\ tempDir = [j \in JobIds |-> FALSE]
    /\ tempFiles = [j \in JobIds |-> {}]
    /\ outFiles = {}
    /\ fin = NoFin

\* The steps of checkAndIncrement...Quota, wherever it is called from.
QuotaStep(r) ==
    \/ QIncr(r)
    \/ QNow(r)
    \/ QExpire(r)

\* The quota ledger called directly, under a running clock.
NextQuota ==
    \/ Tick
    \/ \E r \in Requests : Call(r) \/ QuotaStep(r) \/ StatusPeek(r)

SpecQuota == Init /\ [][NextQuota]_vars

\* The steps of the three handlers after the gate.
BodyStep(r) ==
    \/ RouterValidate(r)
    \/ EnterGate(r)
    \/ UploadValidate(r)
    \/ UploadStatus(r)
    \/ UploadEnqueue(r)
    \/ ReadStatus(r)
    \/ ReadData(r)
    \/ AdjustStatus(r)
    \/ AdjustEnqueue(r)

\* The server alone, serving FREE and PAID users: no worker runs and the clock
\* stands still. It starts empty, or with one job that has been analysed.
InitGate ==
    /\ Init
    \/ /\ impl \in Impls
       /\ now = 0
       /\ qcount = [k \in Kinds |-> [d \in Days |-> 0]]
       /\ qexp = [k \in Kinds |-> [d \in Days |-> NoTTL]]
       /\ \E t \in Transcripts :
            /\ jobStatus = [j \in AllJobIds |-> IF j = 1 THEN "READY_FOR_INPUT" ELSE NoStatus]
            /\ jobData = [j \in AllJobIds |->
                            IF j = 1 THEN Merge(Merge(NoData, UploadFields(1)), ReadyFields(t))
                                     ELSE NoData]
       /\ analyzeQueue = << >>
       /\ adjustQueue = << >>
       /\ nextJob = 1
       /\ req = [r \in Requests |-> IdleReq]
       /\ arrivals = 0
       /\ admitted = [k \in Kinds |-> [d \in Days |-> 0]]
       /\ out = NoOut
       /\ lostWrites = 0
       /\ analyzeWorker = [w \in Workers |-> IdleAnalyze]
       /\ adjustWorker = [w \in Workers |-> IdleAdjust]
       /\ tempDir = [j \in JobIds |-> FALSE]
       /\ tempFiles = [j \in JobIds |-> {}]
       /\ outFiles = {}
       /\ fin = NoFin

NextGate == \E r \in Requests : Arrive(r) \/ QuotaStep(r) \/ BodyStep(r) \/ StatusPeek(r)

SpecGate == InitGate /\ [][NextGate]_vars

AnalyzeStep(w) ==
    \/ AnalyzePick(w)
    \/ AnalyzeUploadStatus(w)
    \/ AnalyzeUpload(w)
    \/ AnalyzeAnalysisStatus(w)
    \/ AnalyzeSubmit(w)
    \/ AnalyzePoll(w)
    \/ AnalyzePollTimeout(w)
    \/ AnalyzeWpmStatus(w)
    \/ AnalyzeReady(w)
    \/ AnalyzeFailed(w)

AdjustStep(w) ==
    \/ AdjustPick(w)
    \/ AdjustProcessingStatus(w)
    \/ AdjustLoad(w)
    \/ AdjustCopy(w)
    \/ AdjustMkdir(w)
    \/ AdjustExtract(w)
    \/ AdjustRubberband(w)
    \/ AdjustRmInput(w)
    \/ AdjustReconStatus(w)
    \/ AdjustConcatList(w)
    \/ AdjustConcat(w)
    \/ AdjustCleanup(w)
    \/ AdjustComplete(w)
    \/ AdjustFailed(w)

\* The server and the two workers, serving PAID users; the clock stands still.
Next ==
    \/ \E r \in Requests : ArrivePaid(r) \/ BodyStep(r) \/ DownloadServe(r)
    \/ \E w \in Workers : AnalyzeStep(w)
    \/ \E w \in Workers : AdjustStep(w)

Spec == Init /\ [][Next]_vars

\* Two speakers (A at 250 WPM, B at 150 WPM) with an utterance of no speaker and
\* one of no duration.
TwoSpeakers ==
    [hasUtterances |-> TRUE,
     utterances |-> << [speaker |-> "A", text |-> FiveWords, start |-> 0, end |-> 1200],
                       [speaker |-> "B", text |-> FiveWords, start |-> 1200, end |-> 3200],
                       [speaker |-> NoSpeaker, text |-> << "um" >>, start |-> 3200, end |-> 3700],
                       [speaker |-> "A", text |-> << >>, start |-> 3700, end |-> 3700],
                       [speaker |-> "B", text |-> FiveWords, start |-> 3700, end |-> 5700] >>]

\* Two speakers, A at 100 WPM (5 words in 4000 - 1000 ms) and B at 140 WPM, the
\* last utterance ending before it starts.
SlowAndFast ==
    [hasUtterances |-> TRUE,
     utterances |-> << [speaker |-> "A", text |-> FiveWords, start |-> 0, end |-> 4000],
                       [speaker |-> "B", text |-> FiveWords \o << "f", "g" >>,
                        start |-> 4000, end |-> 7000],
                       [speaker |-> "A", text |-> << >>, start |-> 7000, end |-> 6000] >>]

\* The analyze worker alone, on one uploaded job, the service returning a
\* transcript of one speaker with 0..MaxWords words over a duration from a few
\* milliseconds to minutes, one of several speakers, one without utterances, or
\* one of 7 words in 2240 ms (187.5 WPM).
WpmDurations == {0, 3, 2000, 200000}

WpmTranscripts ==
    { [hasUtterances |-> TRUE,
       utterances |-> << [speaker |-> "A", text |-> [i \in 1..n |-> "w"],
                          start |-> 0, end |-> d] >>] : n \in 0..MaxWords, d \in WpmDurations }
    \cup {TwoSpeakers, SlowAndFast, NoTranscript,
          [hasUtterances |-> TRUE,
           utterances |-> << [speaker |-> "A", text |-> FiveWords \o << "f", "g" >>,
                              start |-> 0, end |-> 2240] >>]}

\* The ledger and the queue after handleUpload accepted a file as job 1.
InitAnalyze ==
    /\ impl = "index"
    /\ now = 0
    /\ qcount = [k \in Kinds |-> [d \in Days |-> 0]]
    /\ qexp = [k \in Kinds |-> [d \in Days |-> NoTTL]]
    /\ jobStatus = [j \in AllJobIds |-> IF j = 1 THEN "PENDING" ELSE NoStatus]
    /\ jobData = [j \in AllJobIds |-> IF j = 1 THEN Merge(NoData, UploadFields(1)) ELSE NoData]
    /\ analyzeQueue = << [jobId |-> 1, filePath |-> UploadPath(1), originalFilename |-> FileName] >>
    /\ adjustQueue = << >>
    /\ nextJob = 1
    /\ req = [r \in Requests |-> IdleReq]
    /\ arrivals = 0
    /\ admitted = [k \in Kinds |-> [d \in Days |-> 0]]
    /\ out = NoOut
    /\ lostWrites = 0
    /\ analyzeWorker = [w \in Workers |-> IdleAnalyze]
    /\ adjustWorker = [w \in Workers |-> IdleAdjust]
    /\ tempDir = [j \in JobIds |-> FALSE]
    /\ tempFiles = [j \in JobIds |-> {}]
    /\ outFiles = {}
    /\ fin = NoFin

AnalyzeRun(w) ==
    \/ AnalyzePick(w)
    \/ AnalyzeUploadStatus(w)
    \/ AnalyzeUpload(w)
    \/ AnalyzeAnalysisStatus(w)
    \/ AnalyzeSubmit(w)
    \/ AnalyzePollOf(w, WpmTranscripts)
    \/ AnalyzePollTimeout(w)
    \/ AnalyzeWpmStatus(w)
    \/ AnalyzeReady(w)
    \/ AnalyzeFailed(w)

NextAnalyze == \E w \in Workers : AnalyzeRun(w)

SpecAnalyze == InitAnalyze /\ [][NextAnalyze]_vars

\* The same with the scheduling of the worker process: every await of a running
\* job handler returns or throws (fetch, Bun.sleep, the store), after which the
\* event loop resumes the handler.
SpecAnalyzeFair == SpecAnalyze /\ \A w \in Workers : WF_vars(AnalyzeRun(w))

\* The adjust worker alone, on one queued adjustment of one analysed job, for
\* the transcripts the analysis may have stored: the two-speaker ones, one
\* speaker at 150 WPM, no utterances.
AdjustTranscripts == Transcripts \cup {TwoSpeakers, SlowAndFast}

\* The target lists of the accepted submission (handleAdjust rejects an empty list).
AdjustTargetLists ==
    TargetLists \cup
    { << [id |-> "Speaker_A", target_wpm |-> t] >> : t \in {200, 249, 250, 251, 252, 300} } \cup
    { << [id |-> "Speaker_A", target_wpm |-> 250], [id |-> "Speaker_B", target_wpm |-> t] >> :
          t \in {150, 180} } \cup
    { << [id |-> "Speaker_A", target_wpm |-> t], [id |-> "Speaker_B", target_wpm |-> 170] >> :
          t \in {99, 100, 101, 102} } \cup
    { << [id |-> "Speaker_A", target_wpm |-> 120] >>,
      << [id |-> "Speaker_C", target_wpm |-> 150] >> }

\* The ledger and the queue after processAnalyzeJob stored transcript t for job 1
\* and handleAdjust accepted the targets tg.
InitAdjust ==
    /\ impl = "index"
    /\ now = 0
    /\ qcount = [k \in Kinds |-> [d \in Days |-> 0]]
    /\ qexp = [k \in Kinds |-> [d \in Days |-> NoTTL]]
    /\ \E t \in AdjustTranscripts, tg \in AdjustTargetLists :
         /\ jobStatus = [j \in AllJobIds |->
                           IF j = 1 THEN "QUEUED_FOR_ADJUSTMENT" ELSE NoStatus]
         /\ jobData = [j \in AllJobIds |->
                         IF j = 1
                         THEN Merge(Merge(Merge(NoData, UploadFields(1)), ReadyFields(t)),
                                    AdjustFields(tg))
                         ELSE NoData]
         /\ adjustQueue = << [jobId |-> 1, filePath |-> UploadPath(1),
                              originalFilename |-> FileName, targets |-> tg] >>
    /\ analyzeQueue = << >>
    /\ nextJob = 1
    /\ req = [r \in Requests |-> IdleReq]
    /\ arrivals = 0
    /\ admitted = [k \in Kinds |-> [d \in Days |-> 0]]
    /\ out = NoOut
    /\ lostWrites = 0
    /\ analyzeWorker = [w \in Workers |-> IdleAnalyze]
    /\ adjustWorker = [w \in Workers |-> IdleAdjust]
    /\ tempDir = [j \in JobIds |-> FALSE]
    /\ tempFiles = [j \in JobIds |-> {}]
    /\ outFiles = {}
    /\ fin = NoFin

NextAdjust == \E w \in Workers : AdjustStep(w)

SpecAdjust == InitAdjust /\ [][NextAdjust]_vars

\* The adjust worker on two analysed jobs, each queued for adjustment once. The
\* users chose the names of the uploaded files: the same name, or two names.
OutputJobs == 1..TwoJobs
FileNames == {FileName, [name |-> "talk", ext |-> ".mp3"]}

\* The ledger and the queue after two uploads were analysed (one speaker at 150
\* WPM) and handleAdjust accepted targets for each.
InitOutput ==
    /\ impl = "index"
    /\ now = 0
    /\ qcount = [k \in Kinds |-> [d \in Days |-> 0]]
    /\ qexp = [k \in Kinds |-> [d \in Days |-> NoTTL]]
    /\ \E names \in [OutputJobs -> FileNames], tg \in [OutputJobs -> TargetLists] :
         LET t == CHOOSE x \in Transcripts : x.hasUtterances
         IN /\ jobStatus = [j \in OutputJobs |-> "QUEUED_FOR_ADJUSTMENT"]
            /\ jobData = [j \in OutputJobs |->
                            Merge(Merge(Merge(NoData, [originalFilename |-> names[j],
                                                       filePath |-> UploadPath(j)]),
                                        ReadyFields(t)),
                                  AdjustFields(tg[j]))]
            /\ adjustQueue = [j \in OutputJobs |->
                                [jobId |-> j, filePath |-> UploadPath(j),
                                 originalFilename |-> names[j], targets |-> tg[j]]]
    /\ analyzeQueue = << >>
    /\ nextJob = TwoJobs
    /\ req = [r \in Requests |-> IdleReq]
    /\ arrivals = 0
    /\ admitted = [k \in Kinds |-> [d \in Days |-> 0]]
    /\ out = NoOut
    /\ lostWrites = 0
    /\ analyzeWorker = [w \in Workers |-> IdleAnalyze]
    /\ adjustWorker = [w \in Workers |-> IdleAdjust]
    /\ tempDir = [j \in OutputJobs |-> FALSE]
    /\ tempFiles = [j \in OutputJobs |-> {}]
    /\ outFiles = {}
    /\ fin = NoFin

SpecOutput == InitOutput /\ [][NextAdjust]_vars

\* ------------------------------------------------------------------ claims
\* The handlers a state shows: those in flight and the one that has just answered.
HandlerRecords == {req[r] : r \in Requests} \cup {out}

GatedKinds == {"upload", "adjust"}
QuotaPcs == {"q_incr", "q_now", "q_expire"}

\* C1: for every quota kind and every UTC day, the calls of
\* checkAndIncrement...Quota that return true for that day's counter are at
\* most the limit of the kind (3 for analysis, 1 for adjustment), sequentially
\* and under every interleaving.
C1_AtMostLimitAdmitted == \A k \in Kinds, d \in Days : admitted[k][d] <= Limit(k)

\* C2: a request that the quota check denied has returned without a ledger
\* write and without a queue submission, and a FREE request that has written to
\* the ledger or to a queue has been allowed by the quota check before.
C2_DeniedNeverWritesNorEnqueues ==
    \A h \in HandlerRecords :
        /\ h.quota = "denied" => h.pc = "done" /\ ~h.wrote /\ ~h.enqueued
        /\ h.kind \in GatedKinds /\ h.role = "FREE" /\ (h.wrote \/ h.enqueued)
              => h.quota = "allowed"

\* C2 witness: an adjustment is denied for a job that is open to adjustment.
C2_Witness ==
    /\ out.kind = "adjust" /\ out.quota = "denied"
    /\ out.jobId \in JobIds /\ Adjustable(jobStatus[out.jobId])
    /\ ~out.wrote /\ ~out.enqueued

\* C3: every request that the quota check denied is answered with HTTP 403,
\* for uploads and for adjustments.
C3_DenialIs403 ==
    \A h \in HandlerRecords :
        h.kind \in GatedKinds /\ h.quota = "denied" /\ h.pc = "done" => h.code = 403

\* C4, PAID: no upload or adjust request of a PAID caller is in the quota check
\* or has an answer of it.
PaidUnchecked ==
    \A h \in HandlerRecords :
        h.kind \in GatedKinds /\ h.role = "PAID" => h.quota = "none" /\ h.pc \notin QuotaPcs

\* C4, FREE: a request of a FREE caller that is in the handler body, or has
\* answered from it, was allowed by the quota check.
PastGate(h) ==
    \/ h.pc \in {"u_validate", "u_status", "u_enqueue", "read_status", "read_data",
                 "a_status", "a_enqueue"}
    \/ h.pc = "done" /\ (h.wrote \/ h.enqueued \/ h.rstatus # NoStatus
                         \/ h.code \in {202, 400, 404, 409})

FreeChecked ==
    \A h \in HandlerRecords :
        h.kind \in GatedKinds /\ h.role = "FREE" /\ PastGate(h) => h.quota = "allowed"

\* C4, counters: a quota counter or its expiry changes only in a step of the
\* quota check of a FREE caller.
CountersMoveOnlyInCheck ==
    qcount' # qcount \/ qexp' # qexp
        => \E r \in Requests : /\ req[r].role = "FREE"
                               /\ req[r].pc \in {"q_incr", "q_expire"}
                               /\ req'[r].pc # req[r].pc

\* C4: a PAID caller's upload and adjust are admitted without the quota check
\* and leave every counter as it is; a FREE caller's request is past the gate
\* only if the quota check returned true.
C4_PaidUncheckedFreeChecked ==
    [][PaidUnchecked' /\ FreeChecked' /\ CountersMoveOnlyInCheck]_vars

\* C4 witness: a PAID caller's adjustment is queued although the adjustment
\* counter of the day is used up.
C4_Witness ==
    /\ out.kind = "adjust" /\ out.role = "PAID" /\ out.enqueued /\ out.quota = "none"
    /\ qcount["adjust"][out.today] >= adjustLimit

\* C5: a quota check during which the store threw returns false, a
\* getQuotaCount during which the store threw returns 999, which is above both
\* limits, and the remaining quota computed from it is 0.
C5_FailClosed ==
    /\ \A k \in Kinds : quotaErrorCount > Limit(k)
    /\ \A h \in HandlerRecords :
          /\ h.storeFailed /\ h.quota # "none" => h.quota = "denied"
          /\ h.kind = "peek" /\ h.storeFailed /\ h.pc = "done"
                => /\ h.used[h.qkind] = quotaErrorCount
                   /\ Remaining(h.qkind, h.used[h.qkind]) = 0

\* C5 witness: a first call of the day has incremented the counter, the store
\* throws on EXPIRE, and the call returns false.
C5_Witness ==
    /\ out.kind = "check" /\ out.storeFailed /\ out.quota = "denied"
    /\ qcount[out.qkind][out.today] = 1

\* C6: no getJobInfo returns a merged record that is neither the job's record
\* before nor its record after the update committed during the read.
C6_NoTornRead == \A h \in HandlerRecords : ~h.torn

\* The place of a status in the lifecycle order.
Rank(status) == CHOOSE i \in 1..Len(Lifecycle) : Lifecycle[i] = status

\* The status changes that keep the lifecycle order: creation, a move to a
\* later state, an active state to FAILED, and FAILED to QUEUED_FOR_ADJUSTMENT.
LegalMove(a, b) ==
    \/ a = NoStatus
    \/ a \notin {"COMPLETE", "FAILED"} /\ b = "FAILED"
    \/ a = "FAILED" /\ b = "QUEUED_FOR_ADJUSTMENT"
    \/ a # "FAILED" /\ b # "FAILED" /\ Rank(a) < Rank(b)

\* C7: every change of a job's persisted status is a legal move of the
\* lifecycle; stated for the executions in which the store loses no write.
C7_StatusMonotonic ==
    [][lostWrites' = 0 =>
         \A j \in JobIds : jobStatus'[j] # jobStatus[j] => LegalMove(jobStatus[j], jobStatus'[j])]_vars

\* C8: no step changes a job's persisted status from FAILED to COMPLETE; stated
\* for the executions in which the store loses no write.
C8_NoFailedToComplete ==
    [][lostWrites' = 0 =>
         \A j \in JobIds : ~(jobStatus[j] = "FAILED" /\ jobStatus'[j] = "COMPLETE")]_vars

\* C9: once a poll has returned status 'error', the analysis handler polls no
\* more: it is in its catch block with the upstream error, and it returns
\* having written FAILED with that error.
C9_ErrorFailsAtOnce ==
    /\ \A w \in Workers :
          analyzeWorker[w].sawError
             => analyzeWorker[w].pc = "failed" /\ analyzeWorker[w].threw = UpstreamError
    /\ fin.sawError => fin.status = "FAILED" /\ fin.error = UpstreamError

\* C10: a job handler of either worker always returns normally, and when one of
\* its steps threw it returns having written FAILED with a non-empty error
\* message, which the ledger shows unless the store lost the write.
C10_ThrowBecomesFailed ==
    fin.worker # "none"
       => /\ ~fin.escaped
          /\ fin.thrower = "" => fin.status \in {"READY_FOR_INPUT", "COMPLETE"}
          /\ fin.thrower # ""
                => /\ fin.status = "FAILED"
                   /\ fin.error # ""
                   /\ fin.persisted => /\ jobStatus[fin.jobId] = "FAILED"
                                       /\ jobData[fin.jobId].error = fin.error

\* C10 witness: the upload of the analyze worker throws an error without a
\* message, and the handler returns with FAILED and a message in the ledger.
C10_Witness ==
    /\ fin.worker = "analyze" /\ fin.thrower = "upload" /\ fin.threw = ""
    /\ fin.persisted /\ jobStatus[fin.jobId] = "FAILED" /\ jobData[fin.jobId].error # ""

\* The steps of the full segment pipeline of processAudioAdjustment.
PipelinePcs == {"mkdir", "extract", "rubberband", "rm_input", "recon_status",
                "concat_list", "concat", "cleanup"}

\* Every supplied target is within 1 WPM of the measured average of its speaker
\* (true of the empty list).
WithinTolerance(targets, speakers) ==
    \A n \in 1..Len(targets) :
        \E m \in 1..Len(speakers) :
            /\ speakers[m].id = targets[n].id
            /\ Abs(targets[n].target_wpm - speakers[m].avg_wpm) <= 1

\* The run a of processAudioAdjustment is on, or has left, the optimization path.
OnCopyPath(a) ==
    \/ a.pc = "copy"
    \/ a.pc = "complete" /\ a.i = 0
    \/ a.pc = "failed" /\ a.thrower = "copy"

\* The run a is in, or has left, the full segment pipeline.
OnPipeline(a) ==
    \/ a.pc \in PipelinePcs
    \/ a.pc = "complete" /\ a.i > 0
    \/ a.pc = "failed" /\ a.thrower \notin {"load", "copy"}

RECURSIVE KeptSegments(_, _)
KeptSegments(segments, i) ==
    IF i > Len(segments) THEN << >>
    ELSE IF segments[i].end - segments[i].start > 0
         THEN << i >> \o KeptSegments(segments, i + 1)
         ELSE KeptSegments(segments, i + 1)

\* The speakers whose target differs from their measured average.
ChangedSpeakers(targets, speakers) ==
    { targets[n].id : n \in { n \in 1..Len(targets) :
          \E m \in 1..Len(speakers) : /\ speakers[m].id = targets[n].id
                                      /\ speakers[m].avg_wpm # targets[n].target_wpm } }

\* The run a has been through the whole segment loop without a throw.
LoopDone(a) == a.pc \in {"recon_status", "concat_list", "concat"}

\* C12: when the targets change the rate of exactly one speaker, the segment
\* loop hands over the stretched file (segment_<i>_output.wav) for every
\* positive-duration segment of that speaker and the unstretched file
\* (segment_<i>_input.wav) for every other segment.
C12_OnlyChangedSpeakerStretched ==
    \A w \in Workers :
        LET a == adjustWorker[w]
            kept == KeptSegments(a.segments, 1)
            changed == ChangedSpeakers(a.targets, a.speakers)
        IN LoopDone(a) /\ Cardinality(changed) = 1 /\ Len(a.paths) = Len(kept)
              => \A n \in 1..Len(kept) :
                    LET s == a.segments[kept[n]].speaker
                    IN a.paths[n] = IF s # NoSpeaker /\ ("Speaker_" \o s) \in changed
                                    THEN SegmentOutput(kept[n])
                                    ELSE SegmentInput(kept[n])

\* The list handed to concatenation by run a holds one file per kept segment,
\* in index order: a prefix of it while the loop runs, all of it once the loop
\* is done.
PathsInOrder(a) ==
    LET kept == KeptSegments(a.segments, 1)
    IN /\ Len(a.paths) <= Len(kept)
       /\ \A n \in 1..Len(a.paths) :
             a.paths[n] \in {SegmentInput(kept[n]), SegmentOutput(kept[n])}
       /\ LoopDone(a) => Len(a.paths) = Len(kept) /\ a.i = Len(a.segments) + 1

\* The order of the steps of one run of processAdjustJob.
StepRank(pc) ==
    CASE pc \in {"adjust_status", "load"} -> 1
      [] pc \in {"copy", "mkdir"} -> 2
      [] pc \in {"extract", "rubberband", "rm_input"} -> 3
      [] pc = "recon_status" -> 4
      [] pc = "concat_list" -> 5
      [] pc = "concat" -> 6
      [] pc = "cleanup" -> 7
      [] OTHER -> 8

\* A step of the run in slot w never goes back, enters the concatenation only
\* from the written list, and leaves it for the cleanup.
ConcatOnce(w) ==
    LET a == adjustWorker[w]
        b == adjustWorker'[w]
    IN a.pc # "idle" /\ b.pc # "idle" /\ b # a
          => /\ StepRank(b.pc) >= StepRank(a.pc)
             /\ b.pc = "concat" => a.pc = "concat_list"
             /\ a.pc = "concat" => b.pc = "cleanup"

\* C13: the files handed to concatenation are exactly the positive-duration
\* segments in their index order, one file per kept segment, and the
\* concatenation runs once, after the loop over all segments.
C13_ConcatInSegmentOrder ==
    [][\A w \in Workers : PathsInOrder(adjustWorker'[w]) /\ ConcatOnce(w)]_vars

\* C13 witness: the concatenation has run on four files for a list of five
\* segments whose fourth has no duration, one of the files stretched.
C13_Witness ==
    \E w \in Workers :
        LET a == adjustWorker[w]
        IN /\ a.pc = "cleanup" /\ a.threw = "" /\ a.output \in outFiles
           /\ Len(a.segments) = 5 /\ Len(a.paths) = 4
           /\ a.paths[4] \in {SegmentInput(5), SegmentOutput(5)}
           /\ a.paths[1] = SegmentOutput(1)

\* C14: when a job handler of the adjust worker has returned, COMPLETE or
\* FAILED, the temporary directory of its job does not exist; stated for the
\* runs in which fs.rm itself did not throw.
C14_TempDirRemoved ==
    fin.worker = "adjust" /\ fin.thrower # "cleanup" => ~tempDir[fin.jobId]

\* getJobInfo of the handler h returned null (unknown job, or the store threw).
InfoNull(h) == h.code = 404 /\ h.msg = "Job not found"

AdjustStage == {"QUEUED_FOR_ADJUSTMENT", "PROCESSING_ADJUSTMENT", "PROCESSING_RECONSTRUCTION",
                "COMPLETE"}

\* C16: only a job whose analysis reached READY_FOR_INPUT, which stores the
\* speakers and the segments, is ever in a status of the adjustment stage or in
\* the adjustment queue; a job that FAILED during analysis is never admitted.
\* Stated for the executions in which the store loses no write.
C16_FailedAnalysisNeverAdjusted ==
    lostWrites = 0 =>
        \A j \in JobIds :
            \/ jobStatus[j] \in AdjustStage
            \/ \E n \in 1..Len(adjustQueue) : adjustQueue[n].jobId = j
            => HasAnalysisData(jobData[j])

\* C17: a resubmission against a FAILED job that handleAdjust accepts sets the
\* status to QUEUED_FOR_ADJUSTMENT, stores the new targets and replaces the
\* previous error message in the same committed write, and enqueues exactly one
\* adjustment job with the new targets before it answers 202.
C17_RetryFromScratch ==
    [][/\ \A r \in Requests :
            LET q == req[r]
                j == q.jobId
            IN /\ /\ q.pc = "a_status" /\ q.rstatus = "FAILED"
                  /\ req'[r].pc = "a_enqueue" /\ lostWrites' = lostWrites
                  => /\ jobStatus'[j] = "QUEUED_FOR_ADJUSTMENT"
                     /\ JSONparse(jobData'[j].targets) = q.targets
                     /\ jobData'[j].error \in {"", JsonOfNull}
               /\ /\ q.pc = "a_enqueue" /\ q.rstatus = "FAILED"
                  /\ req'[r].pc = "idle" /\ out'.code = 202
                  => adjustQueue' = Append(adjustQueue,
                                           [jobId |-> j, filePath |-> q.rdata.filePath,
                                            originalFilename |-> q.rdata.originalFilename,
                                            targets |-> q.targets])
       /\ out'.kind = "adjust" /\ out'.code = 202 => out'.wrote /\ out'.enqueued
       /\ Len(adjustQueue') <= Len(adjustQueue) + 1]_vars

\* C17 witness: a job that failed with an error message has been resubmitted
\* and accepted: it is QUEUED_FOR_ADJUSTMENT with the new targets, without the
\* message, and its adjustment is the one entry of the queue.
C17_Witness ==
    /\ out.kind = "adjust" /\ out.code = 202 /\ out.rstatus = "FAILED"
    /\ out.rdata.error \notin {"", JsonOfNull}
    /\ jobStatus[out.jobId] = "QUEUED_FOR_ADJUSTMENT"
    /\ JSONparse(jobData[out.jobId].targets) = out.targets
    /\ jobData[out.jobId].error # out.rdata.error
    /\ Len(adjustQueue) = 1 /\ adjustQueue[1].jobId = out.jobId
    /\ adjustQueue[1].targets = out.targets

\* C18: every SpeakerStat that calculateWPM produced and the analysis stored
\* has avg_wpm > 0 exactly when its total_words > 0 and its total_duration_s > 0
\* (total_duration_s in hundredths of a second, as toFixed(2) keeps it).
C18_WpmPositiveIffBoth ==
    \A j \in JobIds :
        jobData[j].speakers.present
           => \A m \in 1..Len(JSONparse(jobData[j].speakers)) :
                 LET st == JSONparse(jobData[j].speakers)[m]
                 IN st.avg_wpm > 0 <=> (st.total_words > 0 /\ st.total_duration_s > 0)

\* C19: a counter written on one UTC day is not visible on the next: the
\* counter of a day that has not begun is untouched (so its count starts from
\* 0), and a peek returns the counter of the day of the call and no other,
\* whatever is left of the counters of earlier days.
C19_CounterNotVisibleNextDay ==
    LET day == now \div (TicksPerSecond * SecondsPerDay)
    IN /\ \A k \in Kinds, d \in Days : d > day => qcount[k][d] = 0 /\ admitted[k][d] = 0
       /\ \A h \in HandlerRecords :
             h.kind = "peek" /\ h.pc = "done" /\ ~h.storeFailed
                => h.used[h.qkind] = qcount[h.qkind][day]

\* C19 witness: on day 1 a peek returns 0 while the counter that was
\* incremented on day 0 still exists.
C19_Witness ==
    /\ now \div (TicksPerSecond * SecondsPerDay) = 1
    /\ out.kind = "peek" /\ out.pc = "done" /\ ~out.storeFailed
    /\ out.used[out.qkind] = 0
    /\ qcount[out.qkind][0] > 0

\* C20: pollTranscriptionStatus terminates: every pass of its loop that does
\* not return the transcript counts as one attempt, whatever the poll brought
\* (a thrown fetch, a non-OK response, an unknown status); the attempts never
\* exceed maxAttempts; a handler that is polling eventually has the transcript
\* or the timeout error, and the timeout ends the job FAILED.
C20_PollTerminates ==
    /\ [][\A w \in Workers :
            LET a == analyzeWorker[w]
                b == analyzeWorker'[w]
            IN a.pc = "poll" /\ b # a
                  => \/ b.attempts = a.attempts + 1 /\ b.pc \in {"poll", "wpm_status"}
                     \/ /\ a.attempts = maxAttempts
                        /\ b.pc = "failed" /\ b.threw = TimeoutError]_vars
    /\ [](\A w \in Workers : analyzeWorker[w].attempts <= maxAttempts)
    /\ [](fin.thrower = "poll" => fin.status = "FAILED" /\ fin.error = TimeoutError)
    /\ \A w \in Workers :
          (analyzeWorker[w].pc = "poll") ~> (analyzeWorker[w].pc \in {"wpm_status", "failed"})

\* C20 witness: the poll budget is used up without a transcript and the job is
\* FAILED with the timeout error.
C20_Witness ==
    /\ fin.worker = "analyze" /\ fin.thrower = "poll" /\ fin.threw = TimeoutError
    /\ fin.persisted /\ jobStatus[fin.jobId] = "FAILED"
    /\ jobData[fin.jobId].error = TimeoutError

\* The statuses a job handler leaves behind when it is done, and those it writes
\* while it runs.
RestingStatuses == {"READY_FOR_INPUT", "FAILED", "COMPLETE"}
ProcessingStatuses == {"PROCESSING_UPLOAD_CLOUD", "PROCESSING_CLOUD_ANALYSIS",
                       "PROCESSING_WPM_CALCULATION", "PROCESSING_ADJUSTMENT",
                       "PROCESSING_RECONSTRUCTION"}

\* C21: every job picked up by a worker eventually has a resting status in the
\* ledger (READY_FOR_INPUT or FAILED after analysis, COMPLETE or FAILED after
\* adjustment): a persisted PROCESSING_* status always leads to a resting one,
\* every external call returning or failing.
C21_ReachesRestingStatus ==
    \A j \in JobIds :
        (jobStatus[j] \in ProcessingStatuses) ~> (jobStatus[j] \in RestingStatuses)

\* The files of the adjust worker stay as they are in a step.
FilesUnchanged == UNCHANGED << tempDir, tempFiles, outFiles >>

\* C22: an adjustment run that finds speakers or diarizationSegments missing in
\* the data hash (or gets null from getJobAnalysisData for a store or parse
\* error) goes to its catch block with the missing-data error without creating
\* the temp directory, extracting a segment or writing an output file, and
\* returns having written FAILED with that message, which the ledger shows
\* unless the store lost the write.
C22_MissingAnalysisFails ==
    [][\A w \in Workers :
         LET a == adjustWorker[w]
             b == adjustWorker'[w]
             d == jobData[a.jobId]
         IN /\ a.pc = "load" /\ b # a /\ (~d.speakers.present \/ ~d.diarizationSegments.present)
                  => b.pc = "failed"
            /\ a.pc = "load" /\ b.pc = "failed"
                  => b.threw = NoAnalysisError /\ FilesUnchanged
            /\ a.pc = "failed" /\ a.thrower = "load" /\ b # a
                  => /\ FilesUnchanged
                     /\ a.i = 0 /\ a.paths = << >> /\ a.output = ""
                     /\ fin'.status = "FAILED" /\ fin'.error = NoAnalysisError
                     /\ fin'.persisted => /\ jobStatus'[a.jobId] = "FAILED"
                                          /\ jobData'[a.jobId].error = NoAnalysisError]_vars

\* C22 witness: an adjustment of a job without analysis data has returned with
\* FAILED in the ledger, no temp directory and no output file.
C22_Witness ==
    /\ fin.worker = "adjust" /\ fin.thrower = "load" /\ fin.persisted
    /\ ~jobData[fin.jobId].speakers.present
    /\ jobStatus[fin.jobId] = "FAILED" /\ jobData[fin.jobId].error = NoAnalysisError
    /\ ~tempDir[fin.jobId] /\ outFiles = {}

\* C23: a ledger write that the store fails leaves the status and the data of
\* every job as they were, and the handler that issued it goes on as after a
\* successful write: a job handler moves to its next step or returns normally
\* (it does not enter its catch block and nothing escapes it), a request
\* handler goes on to the queue submission or answers 202.
C23_UpdateNeverRaises ==
    [][lostWrites' # lostWrites
         => /\ UNCHANGED << jobStatus, jobData >>
            /\ \A w \in Workers :
                  LET a == analyzeWorker[w]
                      b == analyzeWorker'[w]
                  IN b # a => \/ b.pc \notin {"idle", "failed"} /\ b.threw = a.threw
                              \/ b = IdleAnalyze /\ fin'.worker = "analyze" /\ ~fin'.escaped
            /\ \A w \in Workers :
                  LET a == adjustWorker[w]
                      b == adjustWorker'[w]
                  IN b # a => \/ b.pc \notin {"idle", "failed", "cleanup"} /\ b.threw = a.threw
                              \/ b = IdleAdjust /\ fin'.worker = "adjust" /\ ~fin'.escaped
            /\ \A r \in Requests :
                  req'[r] # req[r] => \/ req'[r].pc \in {"u_enqueue", "a_enqueue"}
                                      \/ out'.pc = "done" /\ out'.code = 202]_vars

\* C23 witness: the store lost the PROCESSING_UPLOAD_CLOUD write of an analysis
\* and the handler is at its next step, the upload, the job still PENDING.
C23_Witness ==
    /\ lostWrites = 1
    /\ \E w \in Workers :
          /\ analyzeWorker[w].pc = "upload"
          /\ jobStatus[analyzeWorker[w].jobId] = "PENDING"

\* C24: a step of getQuotaCount changes no quota counter, no expiry and no
\* admission, and no local of any other call in flight, so the checks around
\* it run as without it; it returns the value of today's counter, which is 0
\* when the key does not exist.
C24_PeekNeverMutates ==
    [][\A r \in Requests :
         req[r].pc = "s_peek" /\ req'[r] # req[r]
            => /\ UNCHANGED << qcount, qexp, admitted >>
               /\ \A q \in Requests \ {r} : req'[q] = req[q]
               /\ req[r].kind = "peek"
                     => /\ out'.kind = "peek" /\ out'.pc = "done"
                        /\ ~out'.storeFailed
                              => out'.used[req[r].qkind] = qcount[req[r].qkind][DayOf(now)]]_vars

\* C24 witness: a peek has returned 0 for a counter that does not exist while a
\* check of the same kind is waiting to increment it.
C24_Witness ==
    /\ out.kind = "peek" /\ out.pc = "done" /\ ~out.storeFailed
    /\ out.used[out.qkind] = 0 /\ qcount[out.qkind][DayOf(now)] = 0
    /\ \E r \in Requests : /\ req[r].kind = "check" /\ req[r].pc = "q_incr"
                           /\ req[r].qkind = out.qkind /\ req[r].today = DayOf(now)

\* The adjustment jobs of job j that are queued or being processed.
RECURSIVE QueuedFor(_, _)
QueuedFor(queue, j) ==
    IF queue = << >> THEN 0
    ELSE (IF Head(queue).jobId = j THEN 1 ELSE 0) + QueuedFor(Tail(queue), j)

RunningFor(j) == Cardinality({w \in Workers : adjustWorker[w].pc # "idle" /\ adjustWorker[w].jobId = j})

\* C25: for every job id at most one adjustment job is queued or being
\* processed, so no two runs of the adjust worker share the job's temp
\* directory and output; stated for the executions in which the store loses no
\* write.
C25_OneAdjustmentPerJob ==
    lostWrites = 0 => \A j \in JobIds : QueuedFor(adjustQueue, j) + RunningFor(j) <= 1

\* C26: an adjustment submission writes to the ledger only while the job's
\* persisted status is READY_FOR_INPUT or FAILED, it writes in no other step
\* than the QUEUED_FOR_ADJUSTMENT write and enqueues in no other step than the
\* queue submission after it, and a submission that read no status or another
\* status is answered with an error without a write; stated for the executions
\* in which the store loses no write.
C26_AcceptedOnlyWhenAdjustable ==
    [][lostWrites' = 0 =>
         \A r \in Requests :
            LET h == req[r]
            IN h.kind = "adjust" /\ req'[r].pc # h.pc
                  => /\ h.pc = "a_status" => Adjustable(jobStatus[h.jobId])
                     /\ h.pc # "a_status" => UNCHANGED << jobStatus, jobData >>
                     /\ h.pc # "a_enqueue" => UNCHANGED adjustQueue
                     /\ h.pc = "read_data" /\ ~Adjustable(h.rstatus)
                           => out'.pc = "done" /\ out'.code # 202 /\ ~out'.wrote]_vars

\* Is job j in the queue, or with a handler of the worker that has taken it and
\* not yet written its first status, or with the request handler whose queue
\* submission is still to come.
AnalysisPending(j) ==
    \/ QueuedFor(analyzeQueue, j) > 0
    \/ \E w \in Workers : analyzeWorker[w].jobId = j /\ analyzeWorker[w].pc = "upload_status"
    \/ \E r \in Requests : req[r].jobId = j /\ req[r].pc = "u_enqueue"

AdjustmentPending(j) ==
    \/ QueuedFor(adjustQueue, j) > 0
    \/ \E w \in Workers : adjustWorker[w].jobId = j /\ adjustWorker[w].pc = "adjust_status"
    \/ \E r \in Requests : req[r].jobId = j /\ req[r].pc = "a_enqueue"

\* C27: a job whose persisted status is PENDING has an entry in the analysis
\* queue and a job whose persisted status is QUEUED_FOR_ADJUSTMENT has one in
\* the adjustment queue (or a worker has just taken it, or the submission is
\* under way); stated for index.ts and the executions in which the store loses
\* no write.
C27_QueuedStatusHasQueueEntry ==
    impl = "index" /\ lostWrites = 0
       => \A j \in JobIds :
             /\ jobStatus[j] = "PENDING" => AnalysisPending(j)
             /\ jobStatus[j] = "QUEUED_FOR_ADJUSTMENT" => AdjustmentPending(j)

\* C28: a request that is rejected after the gate (an upload without a valid
\* audio file or whose file cannot be saved, an adjustment of an unknown job,
\* of a job in a non-adjustable status or with invalid targets) has consumed
\* no quota unit: its caller's quota check has not incremented a counter and
\* admitted it.
C28_RejectedConsumesNoQuota ==
    \A h \in HandlerRecords :
        h.kind \in GatedKinds /\ h.pc = "done" /\ ~h.enqueued /\ ~h.wrote
           /\ h.code \in {400, 404, 409, 500}
           => h.quota # "allowed"

\* C29: two distinct COMPLETE jobs have distinct output files: the
\* outputFilePath that download serves for one is not the path the other job
\* has written, also when both were uploaded under the same file name; stated
\* for the executions in which the store loses no write.
C29_DistinctOutputFiles ==
    lostWrites = 0
       => \A i, j \in OutputJobs :
             i # j /\ jobStatus[i] = "COMPLETE" /\ jobStatus[j] = "COMPLETE"
                => jobData[i].outputFilePath # jobData[j].outputFilePath

\* C30: the expiry that a first increment of the day sends with EXPIRE is at
\* least one second, whenever in the day the call is made.
C30_TtlAtLeastOneSecond ==
    \A h \in HandlerRecords : h.pc = "q_expire" => h.ttl >= 1

\* Has the speaker with this id a segment of positive duration.
HasSegment(segments, id) ==
    \E n \in 1..Len(segments) :
        /\ segments[n].speaker # NoSpeaker /\ "Speaker_" \o segments[n].speaker = id
        /\ segments[n].end - segments[n].start > 0

\* Every target names a speaker with a measured average and a segment to work on.
TargetsKnown(a) ==
    \A n \in 1..Len(a.targets) :
        /\ MapGet(a.speakers, a.targets[n].id, "avg_wpm") # Undefined
        /\ HasSegment(a.segments, a.targets[n].id)

\* C31: the optimization check and the stretch decision agree. A run that went
\* through the whole segment loop (the full pipeline was chosen) for targets of
\* known speakers has stretched at least one segment, and a run on the
\* optimization path has no segment that the per-segment rule would stretch.
C31_CheckAgreesWithStretch ==
    \A w \in Workers :
        LET a == adjustWorker[w]
        IN /\ LoopDone(a) /\ TargetsKnown(a)
                 => \E n \in 1..Len(a.paths), i \in 1..Len(a.segments) :
                       a.paths[n] = SegmentOutput(i)
           /\ OnCopyPath(a)
                 => \A i \in 1..Len(a.segments) :
                       ~NeedsStretch(a.segments[i], a.targets, a.speakers)

\* The handler h is past getJobInfo and holds the record it returned.
HoldsRecord(h) ==
    \/ h.pc \in {"a_status", "a_enqueue", "s_peek", "d_exists"}
    \/ h.pc = "done" /\ h.rdata # NoData

FactorBeyondTolerance(segment, targets, speakers) ==
    /\ segment.speaker # NoSpeaker
    /\ LET id == "Speaker_" \o segment.speaker
           average == MapGet(speakers, id, "avg_wpm")
           target == MapGet(targets, id, "target_wpm")
       IN /\ average # Undefined /\ target # Undefined
          /\ average > 0 /\ target > 0
          /\ 100 * Abs(target - average) > average

\* C33: in the segment loop the time-stretch tool runs on a segment exactly when
\* its stretch factor (target / average of its speaker, 1.0 without a target or
\* a positive rate) is further than 0.01 from 1.0; every other kept segment is
\* handed on as the extracted file.
C33_StretchedExactlyBeyondTolerance ==
    \A w \in Workers :
        LET a == adjustWorker[w]
            kept == KeptSegments(a.segments, 1)
        IN LoopDone(a) /\ Len(a.paths) = Len(kept)
              => \A n \in 1..Len(kept) :
                    a.paths[n] = IF FactorBeyondTolerance(a.segments[kept[n]], a.targets, a.speakers)
                                 THEN SegmentOutput(kept[n])
                                 ELSE SegmentInput(kept[n])

\* C34: the segment list that the analysis persists has exactly one segment per
\* utterance of the transcript, in the order of the utterances, each with the
\* speaker label (null kept as null), the start and the end of its utterance;
\* utterances without a speaker are in the list although calculateWPM leaves
\* them out of the speaker statistics.
C34_OneSegmentPerUtterance ==
    [][\A w \in Workers :
          LET a == analyzeWorker[w]
              utts == a.transcript.utterances
              d == jobData'[a.jobId]
              segments == JSONparse(d.diarizationSegments)
          IN a.pc = "ready" /\ analyzeWorker'[w].pc = "idle" /\ d.diarizationSegments.present
                => /\ Len(segments) = Len(utts)
                   /\ \A i \in 1..Len(utts) :
                         /\ segments[i].speaker = utts[i].speaker
                         /\ segments[i].start = utts[i].start
                         /\ segments[i].end = utts[i].end
                   /\ \A m \in 1..Len(JSONparse(d.speakers)) :
                         JSONparse(d.speakers)[m].id # "Speaker_" \o NoSpeaker]_vars

\* C34 witness: the analysis of five utterances, the third without a speaker,
\* stored five segments, the third with the null speaker, and statistics of two
\* speakers.
C34_Witness ==
    \E j \in JobIds :
        /\ jobStatus[j] = "READY_FOR_INPUT"
        /\ jobData[j].diarizationSegments.present
        /\ Len(JSONparse(jobData[j].diarizationSegments)) = 5
        /\ JSONparse(jobData[j].diarizationSegments)[3] =
              [speaker |-> NoSpeaker, start |-> 3200, end |-> 3700]
        /\ Len(JSONparse(jobData[j].speakers)) = 2

\* The words and the milliseconds of the utterances of speaker s.
WordsOf(utts, s) ==
    LET f[i \in 0..Len(utts)] ==
            IF i = 0 THEN 0
            ELSE f[i - 1] + (IF utts[i].speaker = s THEN Len(utts[i].text) ELSE 0)
    IN f[Len(utts)]

MillisecondsOf(utts, s) ==
    LET f[i \in 0..Len(utts)] ==
            IF i = 0 THEN 0
            ELSE f[i - 1] + (IF utts[i].speaker = s THEN utts[i].end - utts[i].start ELSE 0)
    IN f[Len(utts)]

\* r is W / (D / 1000) * 60 rounded to the nearest integer, a half rounded up.
IsRounded(r, W, D) == 2 * D * r <= 120000 * W + D /\ 120000 * W + D < 2 * D * (r + 1)

\* C35: the statistics that the analysis stores hold one entry per distinct
\* non-null speaker label of the transcript; the entry of a speaker with W > 0
\* words and D > 0 milliseconds over all its utterances has avg_wpm =
\* round(W / (D / 1000) * 60), and the entry of a speaker with D = 0 has avg_wpm 0.
C35_WpmPerSpeaker ==
    [][\A w \in Workers :
          LET a == analyzeWorker[w]
              utts == a.transcript.utterances
              labels == { utts[i].speaker : i \in 1..Len(utts) } \ {NoSpeaker}
              d == jobData'[a.jobId]
              stats == JSONparse(d.speakers)
          IN a.pc = "ready" /\ analyzeWorker'[w].pc = "idle" /\ d.speakers.present
                => /\ Len(stats) = Cardinality(labels)
                   /\ \A s \in labels :
                         \E m \in 1..Len(stats) :
                            LET W == WordsOf(utts, s)
                                D == MillisecondsOf(utts, s)
                            IN /\ stats[m].id = "Speaker_" \o s
                               /\ W > 0 /\ D > 0 => IsRounded(stats[m].avg_wpm, W, D)
                               /\ D = 0 => stats[m].avg_wpm = 0]_vars

\* The temporary files of segment i.
SegmentFiles(i) == {SegmentInput(i), SegmentOutput(i)}

\* C36: a segment with end <= start is skipped by the segment loop: the loop
\* never stops on it to extract or stretch, no temporary file of it exists, and
\* no file of it is in the list for the concatenation; when the loop is done
\* every segment with end > start has exactly one file in that list and the
\* list holds nothing else.
C36_EmptySegmentsSkipped ==
    \A w \in Workers :
        LET a == adjustWorker[w]
            empty == { i \in 1..Len(a.segments) : a.segments[i].end <= a.segments[i].start }
            full == (1..Len(a.segments)) \ empty
        IN a.pc # "idle"
              => /\ a.pc \in {"extract", "rubberband", "rm_input"} => a.i \in full
                 /\ \A i \in empty :
                       /\ SegmentFiles(i) \cap tempFiles[a.jobId] = {}
                       /\ \A n \in 1..Len(a.paths) : a.paths[n] \notin SegmentFiles(i)
                 /\ LoopDone(a)
                       => /\ Len(a.paths) = Cardinality(full)
                          /\ \A i \in full :
                                Cardinality({ n \in 1..Len(a.paths) : a.paths[n] \in SegmentFiles(i) }) = 1

\* C36 witness: the loop is done for three segments, the last ending before it
\* starts, with one file for each of the first two.
C36_Witness ==
    \E w \in Workers :
        LET a == adjustWorker[w]
        IN /\ LoopDone(a) /\ Len(a.segments) = 3
           /\ a.segments[3].end < a.segments[3].start
           /\ a.segments[3].speaker = "A"
           /\ a.paths = << SegmentOutput(1), SegmentInput(2) >>

\* C37: once the analysis has stored the speakers and the diarization segments
\* of a job, no step of any handler or worker changes either field: adjustment
\* submission (first or retry), the adjust worker ending COMPLETE or FAILED,
\* status polling and download.
C37_AnalysisDataImmutable ==
    [][\A j \in JobIds :
          /\ jobData[j].speakers.present => jobData'[j].speakers = jobData[j].speakers
          /\ jobData[j].diarizationSegments.present
                => jobData'[j].diarizationSegments = jobData[j].diarizationSegments]_vars

\* C37 witness: an adjustment of an analysed job ended COMPLETE with the
\* statistics and the segment of the analysed utterance still stored.
C37_Witness ==
    \E j \in JobIds :
        /\ jobStatus[j] = "COMPLETE" /\ jobData[j].outputFilePath # ""
        /\ jobData[j].targets.present
        /\ jobData[j].speakers.present /\ Len(JSONparse(jobData[j].speakers)) = 1
        /\ jobData[j].diarizationSegments.present
        /\ Len(JSONparse(jobData[j].diarizationSegments)) = 1

\* The step from the worker record a to b of a job handler on job j: the step
\* in which the handler returns issues the one write of a resting status (one
\* of `resting`), which is in the ledger unless the store lost it; every
\* earlier step of the run writes a PROCESSING_* status or none.
OneRestingWrite(a, b, worker, resting) ==
    a.pc # "idle" /\ b # a
       => IF b.pc = "idle"
          THEN /\ fin'.worker = worker /\ fin'.jobId = a.jobId
               /\ fin'.status \in resting
               /\ IF fin'.persisted THEN jobStatus'[a.jobId] = fin'.status
                                    ELSE UNCHANGED jobStatus
          ELSE /\ fin'.status = NoStatus
               /\ jobStatus'[a.jobId] # jobStatus[a.jobId]
                     => jobStatus'[a.jobId] \in ProcessingStatuses

\* C38: each run of a job handler issues exactly one write of a resting status,
\* as its last ledger write: an analysis run READY_FOR_INPUT or FAILED, an
\* adjustment run COMPLETE or FAILED; no PROCESSING_* write of the run follows it.
C38_OneRestingWriteLast ==
    [][\A w \in Workers :
          /\ OneRestingWrite(analyzeWorker[w], analyzeWorker'[w], "analyze",
                             {"READY_FOR_INPUT", "FAILED"})
          /\ OneRestingWrite(adjustWorker[w], adjustWorker'[w], "adjust",
                             {"COMPLETE", "FAILED"})]_vars

\* C38 witness: an adjustment run that wrote PROCESSING_RECONSTRUCTION and then
\* failed in the concatenation has returned with FAILED as its last write.
C38_Witness ==
    /\ fin.worker = "adjust" /\ fin.thrower = "concat"
    /\ fin.status = "FAILED" /\ fin.persisted
    /\ jobStatus[fin.jobId] = "FAILED"

\* A checkAndConsume call on the counter of kind k and day d is between its
\* INCR and its return.
ExpirePending(k, d) ==
    \E r \in Requests :
        req[r].pc \in {"q_now", "q_expire"} /\ req[r].qkind = k /\ req[r].today = d

\* C39: a quota counter key that exists while no checkAndConsume call is still
\* on its way to set the expiry carries an expiry.
C39_CounterHasExpiry ==
    \A k \in Kinds, d \in Days :
        qcount[k][d] > 0 /\ ~ExpirePending(k, d) => qexp[k][d] # NoTTL

\* C40: today's counter counts every checkAndConsume call of the day, so it is
\* never below the number of calls admitted that day; the remaining value that
\* the status endpoint computes from a count it read, max(0, limit - used), is
\* within 0..limit, and, while the counter still is what was read, it is 0
\* exactly when the next checkAndConsume would be denied.
C40_CounterCountsCalls ==
    LET d == DayOf(now)
    IN \A k \in Kinds :
          /\ qcount[k][d] >= admitted[k][d]
          /\ \A h \in HandlerRecords :
                h.kind \in {"peek", "status"} /\ h.pc = "done" /\ h.used[k] >= 0
                   => /\ Remaining(k, h.used[k]) \in 0..Limit(k)
                      /\ ~h.storeFailed /\ h.used[k] = qcount[k][d]
                            => (Remaining(k, h.used[k]) = 0 <=> ~Allowed(qcount[k][d] + 1, k))

====
